---- MODULE Spec2Model ----
(***************************************************************************)
(* DAQCap: the capture/normalisation pipeline.                             *)
(*                                                                         *)
(* The repository holds three revisions of the fetch path, which the       *)
(* variable impl tells apart:                                              *)
(*   "DAQCap"     src/src/DAQCap.cpp, PCapDevice with a PacketProcessor    *)
(*   "PCapDevice" src/src/NetworkInterfaces/PCapDevice.cpp, PCapDevice     *)
(*                calling PacketProcessor::process                         *)
(*   "Session"    src/src/DAQSession_impl.cpp, SessionHandler_impl with    *)
(*                the accumulator inlined in fetchData                     *)
(* src/src/PacketProcessor.cpp carries both sides of an unresolved merge:  *)
(* ProcessHEAD and ProcessMerged model one side each.                      *)
(***************************************************************************)
EXTENDS Integers, Sequences, FiniteSets, TLC

\* ------------------------------------------------------------------ bounds
\* longest payload of one frame
MaxPayload == 6
\* most frames one dispatch delivers
MaxFrames == 2
\* most frames constructed in the process
MaxPackets == 3

\* payload byte values: 0xFF and a byte that is not 0xFF
Byte == {0, 255}
\* packet numbers the backend delivers (16 bit, both ends of the range)
SeqNums == {0, 1, 65535}
\* the packet number of the frames whose payload varies
FirstSeq == 0

\* -------------------------------------------------------- program constants
WORD_SIZE == 5
PACKET_NUMBER_OVERFLOW == 65536
IDLE_WORD == [i \in 1..WORD_SIZE |-> 255]

Impls == {"DAQCap", "PCapDevice", "Session"}
Sides == {"HEAD", "merged"}

VARIABLES
    impl,               \* which revision of the fetch path is built
    handler,            \* pcap_t *handler / sessionOpen: TRUE iff non-null
    includingIdleWords, \* SessionHandler_impl::includingIdleWords
    unfinishedWords,    \* the carry: bytes of an unfinished word
    lastPacket,         \* <<>> for nullptr, <<p>> for a stored packet
    counter,            \* static counter of Packet::Packet
    packets,            \* the frames of the most recent fetch
    blob,               \* the blob the most recent fetch returned
    lastOp,             \* the operation that ran last
    stream,             \* history: payload bytes taken in since reset
    emitted,            \* history: blob data returned since reset
    lastFrame,          \* history: last frame taken in since reset, or <<>>
    keptIdle,           \* history: a fetch since reset kept the idle words
    canInterrupt,       \* INTERRUPT_SUPPORTED: pcap_breakloop is compiled in
    canSelect,          \* __linux__ or __APPLE__: the select() timeout path
    readTimeout,        \* pcap_set_timeout works: an idle dispatch returns 0
    device,             \* name of the device the handle captures on, or ""
    activated,          \* pcap_activate succeeded on the handle
    break_loop,         \* libpcap: the break flag of the handle
    wire,               \* frames that arrived on the device, not yet dispatched
    g_packetBuffer,     \* the global vector<Packet> the callback fills
    pc,                 \* where the thread inside fetchData stands
    finite,             \* the fetch in flight has timeout != FOREVER
    limit,              \* packetsToRead of the fetch in flight
    task,               \* the std::async task of SessionHandler_impl::fetchData
    taskResult,         \* what the task returned: [ret, packets]
    closer,             \* where the thread inside PCapDevice::close stands
    dangling,           \* the handle was released under a fetch in flight
    outcome,            \* how the last fetchData call ended
    sent,               \* history: frames that arrived on the device so far
    expired,            \* history: the timeout of this fetch has expired
    received,           \* history: IDs delivered to the callback in this fetch
    broken,             \* history: the dispatch of this fetch returned -2
    owed,               \* history: IDs delivered during timed-out fetches
    returned,           \* history: IDs of the packets of all returned blobs
    avail,              \* history: a frame was on the wire when the fetch began
    armed,              \* history: interrupt() came before the first fetch
    interrupted,        \* history: interrupt() was called since the last fetchData began
    fetched,            \* history: fetchData was called since the session began
    host,               \* the interfaces pcap_findalldevs lists now, in host order
    enumFails,          \* pcap_findalldevs returns -1 now
    networkDeviceCache, \* SessionHandler_impl::networkDeviceCache
    g_devices,          \* the device instances the registry holds, by name
    instances,          \* device instances constructed so far
    handed,             \* history: the handles the registry calls returned
    regOut,             \* how the last registry call ended: [op, name, error, list]
    started,            \* history: the device name of the last startSession call
    dataBuffer,         \* DataBlob::dataBuffer of the blob pack() is called on
    wordStart,          \* DataBlob::pack: size_t wordStart, eight bytes, low first
    byte,               \* DataBlob::pack: size_t byte of the inner loop
    packedData,         \* DataBlob::pack: the vector it returns
    packPc,             \* where the call of DataBlob::pack stands
    raw,                \* the raw frames pcap_dispatch has yet to hand over
    calls,              \* listen_callback calls of the dispatch in progress
    dropped,            \* history: frames the callback dropped in this dispatch
    raised,             \* an exception has left listen_callback
    ctor,               \* per thread: where its Packet constructor stands, the
                        \* ID it read and the value it holds for ++counter
    built,              \* history: the IDs of the frames, as their constructors ended
    tasks,              \* Worker::tasks: the vector under the priority queue
    isTerminated,       \* Worker::isTerminated
    m,                  \* Worker::m: the thread that holds the mutex, or ""
    wpc,                \* where the worker thread stands
    current,            \* the task the worker thread has taken, or 0
    apc,                \* where the thread inside assignTask stands
    atask,              \* the task and priority that assignTask was given
    tpc,                \* where the thread inside terminate stands
    status,             \* history: what has become of each task
    pending,            \* history: the tasks in the queue, in the order assigned
    whole,              \* the frames the backend delivers to a series of calls
    todo,               \* those of them not yet delivered
    warned,             \* history: the warnings of the blobs of the series
    counted,            \* history: the packet counts of the blobs, summed
    ncalls              \* history: the calls of the series so far

\* the state of the processor and of the sequential fetch
procVars == <<impl, handler, includingIdleWords, unfinishedWords, lastPacket,
              counter, packets, blob, lastOp, stream, emitted, lastFrame,
              keptIdle>>

\* the build, the capture stack and the threads
ioVars == <<canInterrupt, canSelect, readTimeout, device, activated, break_loop, wire,
            g_packetBuffer, pc, finite, limit, task, taskResult, closer,
            dangling, outcome, sent, expired, received, broken, owed, returned,
            avail, armed, interrupted, fetched>>

\* the host's interfaces and the device registry
regVars == <<host, enumFails, networkDeviceCache, g_devices, instances, handed,
             regOut>>

\* DataBlob::pack at work
packVars == <<dataBuffer, wordStart, byte, packedData, packPc>>

\* pcap_dispatch at work on raw frames
listenVars == <<raw, calls, dropped, raised>>

\* threads that construct packets
idVars == <<ctor, built>>

\* DAQThread::Worker and the threads that call it
workerVars == <<tasks, isTerminated, m, wpc, current, apc, atask, tpc, status,
                pending>>

\* a frame sequence delivered over a series of calls
splitVars == <<whole, todo, warned, counted, ncalls>>

\* the parts of the library that are modelled on their own
libVars == <<packVars, listenVars, idVars, workerVars, splitVars>>

\* the capture stack, its registry and its processor
coreVars == <<procVars, ioVars, regVars, started>>

vars == <<procVars, ioVars, regVars, started, libVars>>

\* ------------------------------------------------------------------ Packet
\* Packet::Packet(raw_data, size): data, packetNumber and ID of a frame
Packet(data, packetNumber, id) ==
    [ID |-> id, packetNumber |-> packetNumber, data |-> data]

\* Packet::Packet(): the null packet
NullPacket == [ID |-> 0, packetNumber |-> 0, data |-> <<>>]

\* Packet::operator bool / !isNull()
IsValid(p) == p.ID # 0

\* packetsBetween without the exchange that makes first the older packet
packetsBetween_unordered(first, second) ==
    LET diff == IF first.packetNumber > second.packetNumber
                THEN (second.packetNumber + PACKET_NUMBER_OVERFLOW)
                         - (first.packetNumber + 1)
                ELSE second.packetNumber - (first.packetNumber + 1)
    IN  IF diff < 0 THEN diff + PACKET_NUMBER_OVERFLOW ELSE diff

\* packetsBetween that leaves a negative difference as it is
RECURSIVE packetsBetween_negative(_, _)
packetsBetween_negative(first, second) ==
    IF first.ID > second.ID
    THEN packetsBetween_negative(second, first)
    ELSE IF first.packetNumber > second.packetNumber
         THEN (second.packetNumber + PACKET_NUMBER_OVERFLOW)
                  - (first.packetNumber + 1)
         ELSE second.packetNumber - (first.packetNumber + 1)

RECURSIVE packetsBetween(_, _)
packetsBetween(first, second) ==
    IF first.ID > second.ID
    THEN packetsBetween(second, first)
    ELSE LET diff == IF first.packetNumber > second.packetNumber
                     THEN (second.packetNumber + PACKET_NUMBER_OVERFLOW)
                              - (first.packetNumber + 1)
                     ELSE second.packetNumber - (first.packetNumber + 1)
         IN  IF diff < 0 THEN diff + PACKET_NUMBER_OVERFLOW ELSE diff

\* the warning text pushed to warningsBuffer
LostWarning(gap, packet, prev) ==
    ToString(gap) \o " packets lost! Packet = "
        \o ToString(packet.packetNumber)
        \o ", Last = "
        \o ToString(prev.packetNumber)

\* ---------------------------------------------------------------- DataBlob
EmptyBlob == [packets |-> 0, dataBuffer |-> <<>>, warningsBuffer |-> <<>>]

\* ---------------------------------------------------------- PacketProcessor
\* for(const Packet &packet : packets) data.insert(data.end(), ...)
RECURSIVE Unwind(_, _, _)
Unwind(data, pkts, i) ==
    IF i > Len(pkts) THEN data
    ELSE Unwind(data \o pkts[i].data, pkts, i + 1)

\* a comparison that stops one byte short of the word
EqualsIdleWord_short(data, iter) ==
    \A k \in 1..(WORD_SIZE - 1) : data[iter + k] = IDLE_WORD[k]

\* std::equal(iter, iter + WORD_SIZE, IDLE_WORD.cbegin()); iter is 0-based
EqualsIdleWord(data, iter) ==
    \A k \in 1..WORD_SIZE : data[iter + k] = IDLE_WORD[k]

\* a word scan that copies one byte less than a word
\* a scan that drops the idle words whatever the handler was told
RECURSIVE ScanWords_strips(_, _, _, _, _)
ScanWords_strips(data, iter, stop, out, keepIdle) ==
    IF iter = stop THEN out
    ELSE ScanWords_strips(
             data, iter + WORD_SIZE, stop,
             IF IDLE_WORD = <<>> \/ ~EqualsIdleWord(data, iter)
             THEN out \o SubSeq(data, iter + 1, iter + WORD_SIZE)
             ELSE out,
             keepIdle)

RECURSIVE ScanWords_short(_, _, _, _, _)
ScanWords_short(data, iter, stop, out, keepIdle) ==
    IF iter = stop THEN out
    ELSE ScanWords_short(
             data, iter + WORD_SIZE, stop,
             IF keepIdle \/ IDLE_WORD = <<>> \/ ~EqualsIdleWord(data, iter)
             THEN out \o SubSeq(data, iter + 1, iter + WORD_SIZE - 1)
             ELSE out,
             keepIdle)

\* the word scan: for(iter = begin; iter != stop; iter += WORD_SIZE)
RECURSIVE ScanWords(_, _, _, _, _)
ScanWords(data, iter, stop, out, keepIdle) ==
    IF iter = stop THEN out
    ELSE ScanWords(
             data, iter + WORD_SIZE, stop,
             IF keepIdle \/ IDLE_WORD = <<>> \/ ~EqualsIdleWord(data, iter)
             THEN out \o SubSeq(data, iter + 1, iter + WORD_SIZE)
             ELSE out,
             keepIdle)

\* a walk that never moves prevPacket on to the packet just checked
RECURSIVE CheckLostPackets_stale(_, _, _, _)
CheckLostPackets_stale(pkts, i, prev, warnings) ==
    IF i > Len(pkts) THEN warnings
    ELSE LET packet == pkts[i]
             gap == packetsBetween(prev[1], packet)
         IN  CheckLostPackets_stale(
                 pkts, i + 1, prev,
                 IF prev # <<>> /\ gap # 0
                 THEN Append(warnings, LostWarning(gap, packet, prev[1]))
                 ELSE warnings)

\* the walk over the new packets; prev is <<>> (nullptr) or <<packet>>
RECURSIVE CheckLostPackets(_, _, _, _)
CheckLostPackets(pkts, i, prev, warnings) ==
    IF i > Len(pkts) THEN warnings
    ELSE LET packet == pkts[i]
             gap == packetsBetween(prev[1], packet)
         IN  CheckLostPackets(
                 pkts, i + 1, <<packet>>,
                 IF prev # <<>> /\ gap # 0
                 THEN Append(warnings, LostWarning(gap, packet, prev[1]))
                 ELSE warnings)

\* a count of the packets that carry data only
PacketCount_nonEmpty(pkts) ==
    Cardinality({i \in 1..Len(pkts) : pkts[i].data # <<>>})

\* blob.packets = packets.size()
PacketCount(pkts) == Len(pkts)

\* a trailing word taken from the idle-filtered words instead of the buffer
TrailingWord_allIdleDropped(buffer) ==
    LET t == SubSeq(buffer, Len(buffer) - (Len(buffer) % WORD_SIZE) + 1,
                    Len(buffer))
    IN  IF t # <<>> /\ \A k \in DOMAIN t : t[k] = 255 THEN <<>> ELSE t

\* the trailing unfinished word that the HEAD side moves out of dataBuffer
TrailingWord(buffer) ==
    SubSeq(buffer, Len(buffer) - (Len(buffer) % WORD_SIZE) + 1, Len(buffer))

\* a remainder that starts one byte late
Remainder_late(data, iter) == SubSeq(data, iter + 2, Len(data))

\* unfinishedWords.insert(unfinishedWords.end(), iter, data.cend())
Remainder(data, iter) == SubSeq(data, iter + 1, Len(data))

\* a store that forgets the last packet when no packet came
StoreLastPacket_forgets(last, pkts) ==
    IF pkts # <<>> THEN <<pkts[Len(pkts)]>> ELSE <<>>

\* if(prevPacket) lastPacket = unique_ptr<Packet>(new Packet(*prevPacket))
StoreLastPacket(last, pkts) ==
    IF pkts # <<>> THEN <<pkts[Len(pkts)]>> ELSE last

\* PacketProcessor::process, HEAD side of the merge: unpack, split off the
\* unfinished word, check for lost packets, then drop the idle words
ProcessHEAD(carry, last, pkts) ==
    LET buffer == Unwind(carry, pkts, 1)
        rem == Len(buffer) % WORD_SIZE
        aligned == SubSeq(buffer, 1, Len(buffer) - rem)
    IN  [blob |-> [packets |-> PacketCount(pkts),
                   dataBuffer |->
                       ScanWords(aligned, 0, Len(aligned), <<>>, FALSE),
                   warningsBuffer |-> CheckLostPackets(pkts, 1, last, <<>>)],
         unfinishedWords |-> TrailingWord(buffer),
         lastPacket |-> StoreLastPacket(last, pkts)]

\* PacketProcessor::process, incoming side of the merge: check for lost
\* packets, unwind into data, scan the whole words, keep the remainder
ProcessMerged(carry, last, pkts) ==
    LET data == Unwind(carry, pkts, 1)
        stop == Len(data) - (Len(data) % WORD_SIZE)
    IN  [blob |-> [packets |-> PacketCount(pkts),
                   dataBuffer |-> ScanWords(data, 0, stop, <<>>, FALSE),
                   warningsBuffer |-> CheckLostPackets(pkts, 1, last, <<>>)],
         unfinishedWords |-> Remainder(data, stop),
         lastPacket |-> StoreLastPacket(last, pkts)]

\* PacketProcessor::process / blobify as the device revisions call it
process(side, carry, last, pkts) ==
    IF side = "HEAD" THEN ProcessHEAD(carry, last, pkts)
    ELSE ProcessMerged(carry, last, pkts)

\* PacketProcessor::reset
reset == [unfinishedWords |-> <<>>, lastPacket |-> <<>>]

\* ------------------------------------------------------ SessionHandler_impl
\* the check within the packets fetched in this call: for(i = 1; ...)
RECURSIVE CheckWithinFetch(_, _, _)
CheckWithinFetch(pkts, i, warnings) ==
    IF i > Len(pkts) THEN warnings
    ELSE LET gap == packetsBetween(pkts[i - 1], pkts[i])
         IN  CheckWithinFetch(
                 pkts, i + 1,
                 IF gap # 0
                 THEN Append(warnings, LostWarning(gap, pkts[i], pkts[i - 1]))
                 ELSE warnings)

\* the check across the boundary between fetchData calls
CheckAcrossFetch(last, pkts) ==
    LET gap == packetsBetween(last, pkts[1])
    IN  IF IsValid(last) /\ gap # 0
        THEN <<LostWarning(gap, pkts[1], last)>>
        ELSE <<>>

\* SessionHandler_impl::fetchData from the point where packets are in hand
SessionProcess(carry, last, pkts, keepIdle) ==
    IF pkts = <<>>
    THEN [blob |-> EmptyBlob, unfinishedWords |-> carry, lastPacket |-> last]
    ELSE LET data == Unwind(carry, pkts, 1)
             stop == Len(data) - (Len(data) % WORD_SIZE)
         IN  [blob |-> [packets |-> PacketCount(pkts),
                        dataBuffer |->
                            ScanWords(data, 0, stop, <<>>, keepIdle),
                        warningsBuffer |->
                            CheckWithinFetch(pkts, 2,
                                CheckAcrossFetch(last[1], pkts))],
              unfinishedWords |-> Remainder(data, stop),
              lastPacket |-> <<pkts[Len(pkts)]>>]

\* ------------------------------------------------------------ capture stack
\* the interfaces pcap_findalldevs lists, in host order
HostDevices == <<"eth0", "eth1">>

\* the interface names the host may list
HostNames == {"eth0", "eth1", "eth2"}

\* packetsToRead for "all packets of the current buffer"
ALL_PACKETS == -1

\* most packets a fetchData call asks for
MaxLimit == 1

\* the values of packetsToRead
Limits == {ALL_PACKETS} \cup 0..MaxLimit

\* the result of a task that has not returned
NoResult == [ret |-> 0, packets |-> <<>>]

\* ------------------------------------------------------------------ inputs
\* payloads are runs of one byte value, as the test vectors are
Payloads == {[i \in 1..n |-> b] : n \in 0..MaxPayload, b \in Byte}

\* what the backend hands to listen_callback: payload and packet number;
\* either the payload varies or the packet number does
Frames ==
    {[data |-> d, packetNumber |-> FirstSeq] : d \in Payloads}
        \cup {[data |-> <<>>, packetNumber |-> s] : s \in SeqNums}

FrameLists == UNION {[1..n -> Frames] : n \in 0..MaxFrames}

\* the concatenation of a sequence of byte sequences
RECURSIVE Flatten(_)
Flatten(ss) == IF ss = <<>> THEN <<>> ELSE Head(ss) \o Flatten(Tail(ss))

\* listen_callback: g_packetBuffer.emplace_back(packet_data, header->len)
\* for each frame of the dispatch, IDs taken from the static counter
listen(fs, c) ==
    [i \in 1..Len(fs) |-> Packet(fs[i].data, fs[i].packetNumber, c + i - 1)]

\* no handle, no call in flight, nothing captured
Idle ==
    /\ device = ""
    /\ activated = FALSE
    /\ break_loop = FALSE
    /\ wire = <<>>
    /\ g_packetBuffer = <<>>
    /\ pc = "idle"
    /\ finite = FALSE
    /\ limit = ALL_PACKETS
    /\ task = "none"
    /\ taskResult = NoResult
    /\ closer = "idle"
    /\ dangling = FALSE
    /\ outcome = "none"
    /\ sent = 0
    /\ expired = FALSE
    /\ received = {}
    /\ broken = FALSE
    /\ owed = {}
    /\ returned = {}
    /\ avail = FALSE
    /\ armed = FALSE
    /\ interrupted = FALSE
    /\ fetched = FALSE

\* the result of a registry call that was not made
NoCall == [op |-> "none", name |-> "", error |-> FALSE, list |-> <<>>]

\* no device instance constructed, no registry call made, no session started
RegIdle ==
    /\ networkDeviceCache = <<>>
    /\ g_devices = {}
    /\ instances = 0
    /\ handed = {}
    /\ regOut = NoCall
    /\ started = ""

\* the threads that may construct packets
Threads == {1, 2}

\* a thread outside the Packet constructor, none constructed by it yet
NoCtor == [pc |-> "idle", ID |-> -1, value |-> -1]

\* most tasks a worker is given at a time
MaxTasks == 4

TaskIds == 1..MaxTasks

\* no task assigned
NoTask == [id |-> 0, priority |-> 0]

\* no Worker constructed
NoWorker ==
    /\ tasks = <<>>
    /\ isTerminated = FALSE
    /\ m = ""
    /\ wpc = "none"
    /\ current = 0
    /\ apc = "idle"
    /\ atask = NoTask
    /\ tpc = "idle"
    /\ status = [i \in TaskIds |-> "free"]
    /\ pending = <<>>

\* size_t 0, low byte first
Zero64 == <<0, 0, 0, 0, 0, 0, 0, 0>>

\* no helper of the library was called
LibIdle ==
    /\ dataBuffer = <<>>
    /\ wordStart = Zero64
    /\ byte = 0
    /\ packedData = <<>>
    /\ packPc = "none"
    /\ raw = <<>>
    /\ calls = 0
    /\ dropped = 0
    /\ raised = FALSE
    /\ ctor = [t \in Threads |-> NoCtor]
    /\ built = <<>>
    /\ NoWorker
    /\ whole = <<>>
    /\ todo = <<>>
    /\ warned = <<>>
    /\ counted = 0
    /\ ncalls = 0

\* -------------------------------------------------------------------- Init
Init ==
    /\ impl \in Impls
    /\ handler = FALSE
    /\ includingIdleWords = FALSE
    /\ unfinishedWords = <<>>
    /\ lastPacket = IF impl = "Session" THEN <<NullPacket>> ELSE <<>>
    /\ counter = 0
    /\ packets = <<>>
    /\ blob = EmptyBlob
    /\ lastOp = "init"
    /\ stream = <<>>
    /\ emitted = <<>>
    /\ lastFrame = <<>>
    /\ keptIdle = FALSE
    /\ canInterrupt = TRUE
    /\ canSelect = TRUE
    /\ readTimeout = TRUE
    /\ Idle
    /\ host = HostDevices
    /\ enumFails = FALSE
    /\ RegIdle
    /\ LibIdle

\* ----------------------------------------------------------------- actions
\* PCapDevice::open / SessionHandler_impl::startSession, the backend accepting
Open ==
    /\ pc = "idle"
    /\ closer = "idle"
    /\ ~handler
    /\ handler' = TRUE
    /\ device' = HostDevices[1]
    /\ activated' = TRUE
    /\ lastOp' = "open"
    /\ UNCHANGED <<impl, includingIdleWords, unfinishedWords, lastPacket,
                   counter, packets, blob, stream, emitted, lastFrame,
                   keptIdle>>
    /\ UNCHANGED <<regVars, started, libVars, canInterrupt, canSelect, readTimeout, break_loop, wire,
                   g_packetBuffer, pc, finite, limit, task, taskResult, closer,
                   dangling, outcome, sent, expired, received, broken, owed,
                   returned, avail, armed, interrupted, fetched>>

\* SessionHandler_impl::includeIdleWords
IncludeIdleWords ==
    /\ impl = "Session"
    /\ \E discard \in BOOLEAN : includingIdleWords' = discard
    /\ lastOp' = "includeIdleWords"
    /\ UNCHANGED <<impl, handler, unfinishedWords, lastPacket, counter,
                   packets, blob, stream, emitted, lastFrame, keptIdle>>
    /\ UNCHANGED <<ioVars, regVars, started, libVars>>

\* the frames a dispatch may deliver within the bounds
Deliverable(fs) == counter + Len(fs) <= MaxPackets

\* the bookkeeping every fetch shares
Fetched(fs, r) ==
    /\ packets' = listen(fs, counter)
    /\ counter' = counter + Len(fs)
    /\ blob' = r.blob
    /\ unfinishedWords' = r.unfinishedWords
    /\ lastPacket' = r.lastPacket
    /\ stream' = stream \o Flatten([i \in 1..Len(fs) |-> fs[i].data])
    /\ emitted' = emitted \o r.blob.dataBuffer
    /\ lastFrame' = IF fs = <<>> THEN lastFrame ELSE <<fs[Len(fs)]>>
    /\ keptIdle' = (keptIdle \/ (includingIdleWords /\ fs # <<>>))
    /\ lastOp' = "fetch"
    /\ UNCHANGED <<impl, handler, includingIdleWords>>
    /\ UNCHANGED <<ioVars, regVars, started, libVars>>

\* PCapDevice::fetchData of DAQCap.cpp
FetchDAQCap ==
    /\ impl = "DAQCap"
    /\ handler
    /\ \E fs \in FrameLists, side \in Sides :
          /\ Deliverable(fs)
          /\ Fetched(fs, process(side, unfinishedWords, lastPacket,
                                 listen(fs, counter)))

\* PCapDevice::fetchData of NetworkInterfaces/PCapDevice.cpp
FetchPCapDevice ==
    /\ impl = "PCapDevice"
    /\ handler
    /\ \E fs \in FrameLists, side \in Sides :
          /\ Deliverable(fs)
          /\ Fetched(fs, process(side, unfinishedWords, lastPacket,
                                 listen(fs, counter)))

\* SessionHandler_impl::fetchData
FetchSession ==
    /\ impl = "Session"
    /\ handler
    /\ \E fs \in FrameLists :
          /\ Deliverable(fs)
          /\ Fetched(fs, SessionProcess(unfinishedWords, lastPacket,
                                        listen(fs, counter),
                                        includingIdleWords))

\* pcap_close(handler); handler = nullptr; g_packetBuffer.clear(): the handle
\* goes, and with it its break flag and the frames it had not dispatched
Released ==
    /\ handler' = FALSE
    /\ device' = ""
    /\ activated' = FALSE
    /\ break_loop' = FALSE
    /\ wire' = <<>>
    /\ g_packetBuffer' = <<>>
    /\ owed' = {}
    /\ armed' = FALSE
    /\ interrupted' = FALSE
    /\ fetched' = FALSE
    /\ UNCHANGED <<regVars, started, libVars, canInterrupt, canSelect, readTimeout, pc, finite, limit, task,
                   taskResult, closer, dangling, outcome, sent, expired,
                   received, broken, returned, avail>>

\* PCapDevice::close of DAQCap.cpp
CloseDAQCap ==
    /\ impl = "DAQCap"
    /\ pc = "idle"
    /\ closer = "idle"
    /\ Released
    /\ unfinishedWords' = reset.unfinishedWords
    /\ lastPacket' = reset.lastPacket
    /\ stream' = <<>>
    /\ emitted' = <<>>
    /\ lastFrame' = <<>>
    /\ keptIdle' = FALSE
    /\ lastOp' = "close"
    /\ UNCHANGED <<impl, includingIdleWords, counter, packets, blob>>

\* PCapDevice::close of NetworkInterfaces/PCapDevice.cpp
ClosePCapDevice ==
    /\ impl = "PCapDevice"
    /\ pc = "idle"
    /\ Released
    /\ lastOp' = "close"
    /\ UNCHANGED <<impl, includingIdleWords, unfinishedWords, lastPacket,
                   counter, packets, blob, stream, emitted, lastFrame,
                   keptIdle>>

\* SessionHandler_impl::endSession
EndSession ==
    /\ impl = "Session"
    /\ pc = "idle"
    /\ Released
    /\ unfinishedWords' = <<>>
    /\ lastPacket' = <<NullPacket>>
    /\ stream' = <<>>
    /\ emitted' = <<>>
    /\ lastFrame' = <<>>
    /\ keptIdle' = FALSE
    /\ lastOp' = "close"
    /\ UNCHANGED <<impl, includingIdleWords, counter, packets, blob>>

Next ==
    \/ Open
    \/ IncludeIdleWords
    \/ FetchDAQCap
    \/ FetchPCapDevice
    \/ FetchSession
    \/ CloseDAQCap
    \/ ClosePCapDevice
    \/ EndSession

Spec == Init /\ [][Next]_vars

\* ------------------------------------------------ the calls, step by step
\* most frames that arrive on the device
MaxArrivals == 2

\* the n-th frame the device receives: three payload bytes, packet number n
IOFrame(n) ==
    [data |-> <<0, 0, 0>>, packetNumber |-> n % PACKET_NUMBER_OVERFLOW]

\* the IDs of a vector of packets
PacketIDs(pkts) == {pkts[i].ID : i \in 1..Len(pkts)}

\* NetworkManager::hasOpenSession of the pcap manager
hasOpenSession == handler

\* a frame reaches the open device
Arrive ==
    /\ handler
    /\ activated
    /\ sent < MaxArrivals
    /\ wire' = Append(wire, IOFrame(sent))
    /\ sent' = sent + 1
    /\ UNCHANGED <<procVars, regVars, started, libVars, canInterrupt, canSelect, readTimeout, device, activated,
                   break_loop, g_packetBuffer, pc, finite, limit, task, taskResult,
                   closer, dangling, outcome, expired, received, broken,
                   owed, returned, avail, armed, interrupted, fetched>>

\* open() that fails and keeps no handle: pcap_create, pcap_compile or
\* pcap_setfilter reports an error, in DAQCap.cpp pcap_activate as well
OpenFails ==
    /\ impl # "Session"
    /\ pc = "idle"
    /\ closer = "idle"
    /\ ~handler
    /\ lastOp' = "openFailed"
    /\ UNCHANGED <<impl, handler, includingIdleWords, unfinishedWords,
                   lastPacket, counter, packets, blob, stream, emitted,
                   lastFrame, keptIdle, ioVars,
                   regVars, started, libVars>>

\* open() of NetworkInterfaces/PCapDevice.cpp when pcap_activate fails: the
\* throw comes before pcap_close and handler = nullptr, the handle is kept
ActivateFails ==
    /\ impl = "PCapDevice"
    /\ pc = "idle"
    /\ ~handler
    /\ handler' = TRUE
    /\ device' = HostDevices[1]
    /\ activated' = FALSE
    /\ lastOp' = "openFailed"
    /\ UNCHANGED <<impl, includingIdleWords, unfinishedWords, lastPacket,
                   counter, packets, blob, stream, emitted, lastFrame,
                   keptIdle, regVars, started, libVars, canInterrupt, canSelect, readTimeout,
                   break_loop, wire, g_packetBuffer, pc, finite, limit, task,
                   taskResult, closer, dangling, outcome, sent, expired,
                   received, broken, owed, returned, avail, armed, interrupted, fetched>>

\* PCapDevice::open
OpenDevice ==
    /\ impl # "Session"
    /\ Open

\* PCapDevice::open on a device that holds a handle: DAQCap.cpp returns at
\* if(handler), NetworkInterfaces/PCapDevice.cpp throws logic_error
OpenAgain ==
    /\ impl # "Session"
    /\ pc = "idle"
    /\ closer = "idle"
    /\ handler
    /\ lastOp' = IF impl = "DAQCap" THEN "openAgain" ELSE "openInProgress"
    /\ UNCHANGED <<impl, handler, includingIdleWords, unfinishedWords,
                   lastPacket, counter, packets, blob, stream, emitted,
                   lastFrame, keptIdle, ioVars, regVars, started, libVars>>

\* an interrupt() that also gives the handle up
Interrupt_closes ==
    /\ break_loop' = (break_loop \/ (handler /\ canInterrupt))
    /\ armed' = (armed \/ (handler /\ activated /\ pc = "idle" /\ ~fetched))
    /\ interrupted' = (interrupted \/ handler)
    /\ handler' = FALSE
    /\ UNCHANGED <<impl, includingIdleWords, unfinishedWords, lastPacket,
                   counter, packets, blob, lastOp, stream, emitted,
                   lastFrame, keptIdle, regVars, started, libVars, canInterrupt,
                   canSelect, readTimeout, device, activated, wire,
                   g_packetBuffer, pc, finite, limit, task, taskResult,
                   closer, dangling, outcome, sent, expired, received,
                   broken, owed, returned, avail, fetched>>

\* interrupt(): pcap_breakloop(handler) where the build has it, else nothing
Interrupt ==
    /\ break_loop' = (break_loop \/ (handler /\ canInterrupt))
    /\ armed' = (armed \/ (handler /\ activated /\ pc = "idle" /\ ~fetched))
    /\ interrupted' = (interrupted \/ handler)
    /\ UNCHANGED <<procVars, regVars, started, libVars, canInterrupt, canSelect, readTimeout, device, activated,
                   wire, g_packetBuffer, pc, finite, limit, task, taskResult,
                   closer, dangling, outcome, sent, expired, received,
                   broken, owed, returned, avail, fetched>>

\* fetchData without an open device or session: the NotOpen error
FetchNotOpen ==
    /\ pc = "idle"
    /\ closer = "idle"
    /\ IF impl = "Session" THEN ~hasOpenSession ELSE ~handler
    /\ outcome' = "NotOpen"
    /\ lastOp' = "error"
    /\ expired' = FALSE
    /\ received' = {}
    /\ broken' = FALSE
    /\ avail' = FALSE
    /\ UNCHANGED <<impl, handler, includingIdleWords, unfinishedWords,
                   lastPacket, counter, packets, blob, stream, emitted,
                   lastFrame, keptIdle, regVars, started, libVars, canInterrupt, canSelect,
                   readTimeout, device, activated, break_loop, wire,
                   g_packetBuffer, pc, finite, limit, task, taskResult, closer,
                   dangling, sent, owed, returned, armed, interrupted, fetched>>

\* the bookkeeping at the start of every fetchData call on an open device
Called(f) ==
    /\ pc = "idle"
    /\ closer = "idle"
    /\ finite' = f
    /\ limit' \in Limits
    /\ expired' = FALSE
    /\ received' = {}
    /\ broken' = FALSE
    /\ avail' = (wire # <<>>)
    /\ fetched' = TRUE
    /\ armed' = (armed /\ ~fetched)
    /\ interrupted' = FALSE

\* PCapDevice::fetchData of DAQCap.cpp up to the wait: select() when the
\* timeout is finite and the platform has it, else straight to pcap_dispatch
CallDAQCap ==
    /\ impl = "DAQCap"
    /\ handler
    /\ \E f \in BOOLEAN :
          /\ Called(f)
          /\ pc' = IF f /\ canSelect THEN "select" ELSE "dispatch"
    /\ UNCHANGED <<procVars, regVars, started, libVars, canInterrupt, canSelect, readTimeout, device, activated,
                   break_loop, wire, g_packetBuffer, task, taskResult,
                   closer, dangling, outcome, sent, owed, returned>>

\* PCapDevice::fetchData of NetworkInterfaces/PCapDevice.cpp up to
\* pcap_dispatch; the timeout is not read
CallPCapDevice ==
    /\ impl = "PCapDevice"
    /\ handler
    /\ \E f \in BOOLEAN : Called(f)
    /\ pc' = "dispatch"
    /\ UNCHANGED <<procVars, regVars, started, libVars, canInterrupt, canSelect, readTimeout, device, activated,
                   break_loop, wire, g_packetBuffer, task, taskResult,
                   closer, dangling, outcome, sent, owed, returned>>

\* listen_callback run by pcap_dispatch on the next frame of the device
Deliver ==
    /\ pc = "dispatch" \/ task = "dispatch"
    /\ ~dangling
    /\ activated
    /\ wire # <<>>
    /\ limit <= 0 \/ Cardinality(received) < limit
    /\ g_packetBuffer' = g_packetBuffer \o listen(<<Head(wire)>>, counter)
    /\ counter' = counter + 1
    /\ wire' = Tail(wire)
    /\ received' = received \cup {counter}
    /\ UNCHANGED <<impl, handler, includingIdleWords, unfinishedWords,
                   lastPacket, packets, blob, lastOp, stream, emitted,
                   lastFrame, keptIdle, regVars, started, libVars, canInterrupt, canSelect,
                   readTimeout, device, activated, break_loop, pc, finite, limit, task,
                   taskResult, closer, dangling, outcome, sent, expired,
                   broken, owed, returned, avail, armed, interrupted, fetched>>

\* what pcap_dispatch may return: -2 when the break flag is set, else the
\* number of frames once it has handed over one, or 0 when the read timeout
\* ends the wait for a first one; on a released handle anything, on a handle
\* never activated PCAP_ERROR_NOT_ACTIVATED
DispatchResults ==
    IF dangling THEN {-1, -2, Cardinality(received)}
    ELSE IF ~activated THEN {-3}
    ELSE IF break_loop THEN {-2}
    ELSE IF received # {} \/ (readTimeout /\ wire = <<>>)
         THEN {Cardinality(received)}
    ELSE {}

\* what pcap_dispatch returns when reading from the device fails, which it
\* may at any time, also after it has handed over frames
DispatchErrors ==
    IF ~dangling /\ activated /\ ~break_loop THEN {-1} ELSE {}

\* fetchData returns the blob r made of pkts
Returns(pkts, r) ==
    /\ packets' = pkts
    /\ blob' = r.blob
    /\ unfinishedWords' = r.unfinishedWords
    /\ lastPacket' = r.lastPacket
    /\ stream' = stream \o Flatten([i \in 1..Len(pkts) |-> pkts[i].data])
    /\ emitted' = emitted \o r.blob.dataBuffer
    /\ lastFrame' = IF pkts = <<>> THEN lastFrame
                    ELSE <<[data |-> pkts[Len(pkts)].data,
                            packetNumber |-> pkts[Len(pkts)].packetNumber]>>
    /\ keptIdle' = (keptIdle \/ (includingIdleWords /\ pkts # <<>>))
    /\ lastOp' = "fetch"
    /\ outcome' = "blob"
    /\ limit' = ALL_PACKETS
    /\ returned' = returned \cup PacketIDs(pkts)
    /\ UNCHANGED <<armed, interrupted>>
    /\ pc' = "idle"

\* fetchData throws what pcap_dispatch reported
Throws ==
    /\ outcome' = "CaptureError"
    /\ lastOp' = "error"
    /\ limit' = ALL_PACKETS
    /\ UNCHANGED <<armed, interrupted>>
    /\ pc' = "idle"
    /\ UNCHANGED <<packets, blob, unfinishedWords, lastPacket, stream,
                   emitted, lastFrame, keptIdle, returned>>

\* the rest of fetchData once pcap_dispatch has returned ret: swap the
\* packets out of g_packetBuffer, throw on -1, else process them
AfterDispatch(ret) ==
    /\ break_loop' = IF ret = -2 \/ dangling THEN FALSE ELSE break_loop
    /\ broken' = (ret = -2)
    /\ g_packetBuffer' = <<>>
    /\ dangling' = FALSE
    /\ IF ret = -1 THEN Throws
       ELSE \E side \in Sides :
               Returns(g_packetBuffer,
                       process(side, unfinishedWords, lastPacket,
                               g_packetBuffer))

\* what select(fd, &rfds, NULL, NULL, &tv) may return: it tests the
\* descriptors below fd only, so the device is never seen ready: 0 when tv
\* has run out, -1 when the call fails or a signal ends it
SelectResults == {0, -1}

\* the timeout logic of fetchData and what follows it with sel <= 0: ret is
\* -2 for sel = 0 and -1 otherwise, the packets are swapped out of
\* g_packetBuffer, -1 throws and -2 goes on to process them
SelectDAQCap ==
    /\ impl = "DAQCap"
    /\ pc = "select"
    /\ g_packetBuffer' = <<>>
    /\ dangling' = FALSE
    /\ \E sel \in SelectResults :
          /\ expired' = (sel = 0)
          /\ IF sel < 0 THEN Throws
             ELSE \E side \in Sides :
                     Returns(g_packetBuffer,
                             process(side, unfinishedWords, lastPacket,
                                     g_packetBuffer))
    /\ UNCHANGED <<impl, handler, includingIdleWords, counter, regVars, started, libVars, canInterrupt,
                   canSelect, readTimeout, device, activated, break_loop,
                   wire, finite, task, taskResult, closer, sent, received,
                   broken, owed, avail, fetched>>

\* pcap_dispatch returns in PCapDevice::fetchData of DAQCap.cpp
DispatchDAQCap ==
    /\ impl = "DAQCap"
    /\ pc = "dispatch"
    /\ \E ret \in DispatchResults : AfterDispatch(ret)
    /\ UNCHANGED <<impl, handler, includingIdleWords, counter, regVars, started, libVars, canInterrupt,
                   canSelect, readTimeout, device, activated, wire, finite, task,
                   taskResult, closer, sent, expired, received, owed, avail,
                   fetched>>

\* pcap_dispatch returns in PCapDevice::fetchData of PCapDevice.cpp
DispatchPCapDevice ==
    /\ impl = "PCapDevice"
    /\ pc = "dispatch"
    /\ \E ret \in DispatchResults : AfterDispatch(ret)
    /\ UNCHANGED <<impl, handler, includingIdleWords, counter, regVars, started, libVars, canInterrupt,
                   canSelect, readTimeout, device, activated, wire, finite, task,
                   taskResult, closer, sent, expired, received, owed, avail,
                   fetched>>

\* pcap_dispatch reports an error in PCapDevice::fetchData
DispatchFails ==
    /\ impl # "Session"
    /\ pc = "dispatch"
    /\ \E ret \in DispatchErrors : AfterDispatch(ret)
    /\ UNCHANGED <<impl, handler, includingIdleWords, counter, regVars,
                   started, libVars, canInterrupt, canSelect, readTimeout, device,
                   activated, wire, finite, task, taskResult, closer, sent,
                   expired, received, owed, avail, fetched>>

\* PCapDevice::close of DAQCap.cpp on a second thread, first statement:
\* interrupt()
CloseInterrupts ==
    /\ impl = "DAQCap"
    /\ closer = "idle"
    /\ pc # "idle"
    /\ break_loop' = (break_loop \/ (handler /\ canInterrupt))
    /\ closer' = "interrupted"
    /\ UNCHANGED <<procVars, regVars, started, libVars, canInterrupt, canSelect, readTimeout, device, activated,
                   wire, g_packetBuffer, pc, finite, limit, task, taskResult,
                   dangling, outcome, sent, expired, received, broken, owed,
                   returned, avail, armed, interrupted, fetched>>

\* second and third statement: if(handler) pcap_close(handler);
\* handler = nullptr
CloseReleases ==
    /\ closer = "interrupted"
    /\ handler' = FALSE
    /\ device' = ""
    /\ activated' = FALSE
    /\ break_loop' = FALSE
    /\ wire' = <<>>
    /\ dangling' = (handler /\ pc \in {"select", "dispatch"})
    /\ closer' = "released"
    /\ UNCHANGED <<impl, includingIdleWords, unfinishedWords, lastPacket,
                   counter, packets, blob, lastOp, stream, emitted,
                   lastFrame, keptIdle, regVars, started, libVars, canInterrupt, canSelect,
                   readTimeout, g_packetBuffer, pc, finite, limit, task,
                   taskResult, outcome, sent, expired, received, broken,
                   owed, returned, avail, armed, interrupted, fetched>>

\* the last statements: g_packetBuffer.clear(); packetProcessor.reset()
CloseResets ==
    /\ closer = "released"
    /\ g_packetBuffer' = <<>>
    /\ unfinishedWords' = reset.unfinishedWords
    /\ lastPacket' = reset.lastPacket
    /\ stream' = <<>>
    /\ emitted' = <<>>
    /\ lastFrame' = <<>>
    /\ keptIdle' = FALSE
    /\ owed' = {}
    /\ armed' = FALSE
    /\ interrupted' = FALSE
    /\ fetched' = FALSE
    /\ lastOp' = "close"
    /\ closer' = "idle"
    /\ UNCHANGED <<impl, handler, includingIdleWords, counter, packets,
                   blob, regVars, started, libVars, canInterrupt, canSelect, readTimeout, device, activated,
                   break_loop, wire, pc, finite, limit, task, taskResult, dangling,
                   outcome, sent, expired, received, broken, returned,
                   avail>>

\* the names startSession may be called with; "" is the empty device
Names == {""} \cup HostNames

\* the device check of SessionHandler_impl::startSession: an empty device
\* throws; the loop over getAllDevices() breaks if its first entry has the
\* name and throws otherwise, and passes when there is no entry
PassesDeviceCheck(d) ==
    /\ d # ""
    /\ host # <<>> => host[1] = d

\* a startSession that never ends the session in progress
EndsPrior_never == FALSE

\* if(netManager->hasOpenSession()) endSession()
EndsPrior == hasOpenSession

\* startSession throws at the device check
StartRejected ==
    /\ impl = "Session"
    /\ pc = "idle"
    /\ \E d \in Names :
          /\ d # "" => ~enumFails
          /\ ~PassesDeviceCheck(d)
          /\ started' = d
    /\ lastOp' = "startRejected"
    /\ UNCHANGED <<impl, handler, includingIdleWords, unfinishedWords,
                   lastPacket, counter, packets, blob, stream, emitted,
                   lastFrame, keptIdle, ioVars, regVars, libVars>>

\* startSession(d) of a named device while pcap_findalldevs fails: the
\* runtime_error of PCapManager::getAllDevices leaves startSession
StartEnumFails ==
    /\ impl = "Session"
    /\ pc = "idle"
    /\ enumFails
    /\ \E d \in Names \ {""} : started' = d
    /\ lastOp' = "startError"
    /\ UNCHANGED <<impl, handler, includingIdleWords, unfinishedWords,
                   lastPacket, counter, packets, blob, stream, emitted,
                   lastFrame, keptIdle, ioVars, regVars, libVars>>

\* SessionHandler_impl::startSession(d) past the device check: the session in
\* progress is ended, then PCapManager::startSession throws if a handle is
\* still held, else creates the handle for d, which may fail
StartSession ==
    /\ impl = "Session"
    /\ pc = "idle"
    /\ \E d \in Names, created \in BOOLEAN :
          LET ended == EndsPrior
              held == IF ended THEN FALSE ELSE handler
          IN  /\ ~enumFails
              /\ PassesDeviceCheck(d)
              /\ started' = d
              /\ handler' = (held \/ created)
              /\ activated' = IF held THEN activated ELSE created
              /\ device' = IF held THEN device
                           ELSE IF created THEN d ELSE ""
              /\ lastOp' = IF held THEN "startInProgress"
                           ELSE IF ~created THEN "openFailed"
                           ELSE IF ended THEN "restart" ELSE "open"
              /\ break_loop' = (held /\ break_loop)
              /\ wire' = IF held THEN wire ELSE <<>>
              /\ g_packetBuffer' = IF ended THEN <<>> ELSE g_packetBuffer
              /\ unfinishedWords' = IF ended THEN <<>> ELSE unfinishedWords
              /\ lastPacket' = IF ended THEN <<NullPacket>> ELSE lastPacket
              /\ stream' = IF ended THEN <<>> ELSE stream
              /\ emitted' = IF ended THEN <<>> ELSE emitted
              /\ lastFrame' = IF ended THEN <<>> ELSE lastFrame
              /\ keptIdle' = (~ended /\ keptIdle)
              /\ owed' = IF ended THEN {} ELSE owed
              /\ armed' = (held /\ armed)
              /\ interrupted' = (held /\ interrupted)
              /\ fetched' = (held /\ fetched)
    /\ UNCHANGED <<impl, includingIdleWords, counter, packets, blob,
                   regVars, libVars, canInterrupt, canSelect, readTimeout, pc, finite, limit,
                   task, taskResult, closer, dangling, outcome, sent, expired,
                   received, broken, returned, avail>>

\* SessionHandler_impl::fetchData up to the wait: the task is launched
CallSession ==
    /\ impl = "Session"
    /\ hasOpenSession
    /\ \E f \in BOOLEAN : Called(f)
    /\ task' = "start"
    /\ pc' = "wait"
    /\ UNCHANGED <<procVars, regVars, started, libVars, canInterrupt, canSelect, readTimeout, device, activated,
                   break_loop, wire, g_packetBuffer, taskResult, closer,
                   dangling, outcome, sent, owed, returned>>

\* a task that goes to pcap_dispatch with the buffer as the fetch before it
\* left it
TaskStarts_keeps ==
    /\ task = "start"
    /\ task' = "dispatch"
    /\ UNCHANGED <<procVars, regVars, started, libVars, canInterrupt, canSelect, readTimeout, device, activated,
                   break_loop, wire, pc, finite, limit, taskResult, closer,
                   dangling, outcome, sent, expired, received, broken, owed,
                   returned, avail, armed, interrupted, fetched, g_packetBuffer>>

\* the task enters PCapManager::fetchPackets: g_packetBuffer.clear(), then
\* pcap_dispatch
TaskStarts ==
    /\ task = "start"
    /\ g_packetBuffer' = <<>>
    /\ task' = "dispatch"
    /\ UNCHANGED <<procVars, regVars, started, libVars, canInterrupt, canSelect, readTimeout, device, activated,
                   break_loop, wire, pc, finite, limit, taskResult, closer,
                   dangling, outcome, sent, expired, received, broken, owed,
                   returned, avail, armed, interrupted, fetched>>

\* a fetchPackets that returns the buffer on every path
fetchPackets_keeps(ret, buffer) ==
    [ret |-> ret, packets |-> buffer,
     buffer |-> IF ret = -2 THEN buffer ELSE <<>>]

\* PCapManager::fetchPackets once pcap_dispatch has returned ret: it throws
\* on -1 and returns an empty vector on -2, the buffer staying as it is;
\* else the buffer is moved out
fetchPackets(ret, buffer) ==
    IF ret \in {-1, -2}
    THEN [ret |-> ret, packets |-> <<>>, buffer |-> buffer]
    ELSE [ret |-> ret, packets |-> buffer, buffer |-> <<>>]

\* fetchPackets once pcap_dispatch has returned ret in the task
TaskEnds(ret) ==
    /\ task = "dispatch"
    /\ LET r == fetchPackets(ret, g_packetBuffer)
       IN  /\ taskResult' = [ret |-> r.ret, packets |-> r.packets]
           /\ g_packetBuffer' = r.buffer
           /\ break_loop' = IF ret = -2 THEN FALSE ELSE break_loop
           /\ broken' = (ret = -2)
    /\ task' = "done"
    /\ UNCHANGED <<procVars, regVars, started, libVars, canInterrupt, canSelect,
                   readTimeout, device, activated, wire, pc, finite, limit,
                   closer, dangling, outcome, sent, expired, received, owed,
                   returned, avail, armed, interrupted, fetched>>

\* pcap_dispatch returns in the task and fetchPackets returns
TaskReturns == \E ret \in DispatchResults : TaskEnds(ret)

\* pcap_dispatch reports an error in the task and fetchPackets throws
TaskFails == \E ret \in DispatchErrors : TaskEnds(ret)

\* future.wait_for(timeout) returns timeout: the task has not returned
WaitTimesOut ==
    /\ pc = "wait"
    /\ finite
    /\ task # "done"
    /\ expired' = TRUE
    /\ pc' = "timedout"
    /\ UNCHANGED <<procVars, regVars, started, libVars, canInterrupt, canSelect, readTimeout, device, activated,
                   break_loop, wire, g_packetBuffer, finite, limit, task,
                   taskResult, closer, dangling, outcome, sent, received,
                   broken, owed, returned, avail, armed, interrupted, fetched>>

\* interrupt() of the timed-out fetchData, then the throw
TimeoutInterrupts ==
    /\ pc = "timedout"
    /\ break_loop' = (break_loop \/ (handler /\ canInterrupt))
    /\ pc' = "unwind"
    /\ UNCHANGED <<procVars, regVars, started, libVars, canInterrupt, canSelect, readTimeout, device, activated,
                   wire, g_packetBuffer, finite, limit, task, taskResult, closer,
                   dangling, outcome, sent, expired, received, broken, owed,
                   returned, avail, armed, interrupted, fetched>>

\* the future goes out of scope once the task has returned, its result is
\* dropped and timeout_exception reaches the caller
Unwound ==
    /\ pc = "unwind"
    /\ task = "done"
    /\ outcome' = "TimeoutExceeded"
    /\ lastOp' = "error"
    /\ limit' = ALL_PACKETS
    /\ owed' = owed \cup received
    /\ UNCHANGED <<armed, interrupted>>
    /\ task' = "none"
    /\ taskResult' = NoResult
    /\ pc' = "idle"
    /\ UNCHANGED <<impl, handler, includingIdleWords, unfinishedWords,
                   lastPacket, counter, packets, blob, stream, emitted,
                   lastFrame, keptIdle, regVars, started, libVars, canInterrupt, canSelect,
                   readTimeout, device, activated, break_loop, wire, g_packetBuffer,
                   finite, closer, dangling, sent, expired, received,
                   broken, returned, avail, fetched>>

\* a fetchData that goes on to process where future.get() throws
FetchGets_swallows ==
    /\ pc = "wait"
    /\ task = "done"
    /\ Returns(taskResult.packets,
               SessionProcess(unfinishedWords, lastPacket, taskResult.packets,
                              includingIdleWords))
    /\ task' = "none"
    /\ taskResult' = NoResult
    /\ UNCHANGED <<impl, handler, includingIdleWords, counter, regVars,
                   started, libVars, canInterrupt, canSelect, readTimeout, device,
                   activated, break_loop, wire, g_packetBuffer, finite,
                   closer, dangling, sent, expired, received, broken, owed,
                   avail, fetched>>

\* future.get() and the rest of SessionHandler_impl::fetchData: what
\* fetchPackets threw is thrown on as runtime_error, else the packets are
\* processed
FetchGets ==
    /\ pc = "wait"
    /\ task = "done"
    /\ IF taskResult.ret = -1
       THEN Throws
       ELSE Returns(taskResult.packets,
                    SessionProcess(unfinishedWords, lastPacket,
                                   taskResult.packets, includingIdleWords))
    /\ task' = "none"
    /\ taskResult' = NoResult
    /\ UNCHANGED <<impl, handler, includingIdleWords, counter, regVars, started, libVars, canInterrupt,
                   canSelect, readTimeout, device, activated, break_loop, wire,
                   g_packetBuffer, finite, closer, dangling, sent, expired,
                   received, broken, owed, avail, fetched>>

\* the builds: which revision, and what the platform and libpcap offer
InitIO ==
    /\ impl \in Impls
    /\ canInterrupt \in BOOLEAN
    /\ canSelect \in (IF impl = "DAQCap" THEN BOOLEAN ELSE {FALSE})
    /\ readTimeout \in BOOLEAN
    /\ handler = FALSE
    /\ includingIdleWords = FALSE
    /\ unfinishedWords = <<>>
    /\ lastPacket = IF impl = "Session" THEN <<NullPacket>> ELSE <<>>
    /\ counter = 0
    /\ packets = <<>>
    /\ blob = EmptyBlob
    /\ lastOp = "init"
    /\ stream = <<>>
    /\ emitted = <<>>
    /\ lastFrame = <<>>
    /\ keptIdle = FALSE
    /\ Idle
    /\ host = HostDevices
    /\ enumFails = FALSE
    /\ RegIdle
    /\ LibIdle

\* the steps of a fetchData call in flight and of the capture it waits for
FetchStep ==
    \/ Deliver
    \/ SelectDAQCap
    \/ DispatchDAQCap
    \/ DispatchPCapDevice
    \/ TaskStarts
    \/ TaskReturns
    \/ WaitTimesOut
    \/ TimeoutInterrupts
    \/ Unwound
    \/ FetchGets

NextIO ==
    \/ Arrive
    \/ OpenDevice
    \/ OpenFails
    \/ ActivateFails
    \/ OpenAgain
    \/ StartRejected
    \/ StartSession
    \/ Interrupt
    \/ FetchNotOpen
    \/ CallDAQCap
    \/ CallPCapDevice
    \/ CallSession
    \/ FetchStep
    \/ DispatchFails
    \/ TaskFails
    \/ CloseDAQCap
    \/ CloseInterrupts
    \/ CloseReleases
    \/ CloseResets
    \/ ClosePCapDevice
    \/ EndSession

SpecIO == InitIO /\ [][NextIO]_vars

\* a call in flight is not held up for ever while one of its steps can be
\* taken
SpecIOFair == SpecIO /\ WF_vars(FetchStep)

\* ------------------------------------------------------------ what is meant
\* the words of a byte stream: its consecutive full groups of WORD_SIZE bytes
Words(s) ==
    [k \in 1..(Len(s) \div WORD_SIZE) |->
        SubSeq(s, WORD_SIZE * (k - 1) + 1, WORD_SIZE * k)]

\* the bytes of a stream that lie behind its last full word
Tail5(s) == SubSeq(s, Len(s) - (Len(s) % WORD_SIZE) + 1, Len(s))

IsIdle(w) == \A k \in DOMAIN w : w[k] = 255

\* a stream without the idle words at its word-aligned offsets
StripIdle(s) == Flatten(SelectSeq(Words(s), LAMBDA w : ~IsIdle(w))) \o Tail5(s)

\* the payloads of the frames of the most recent fetch
Payload(pkts) == Flatten([i \in 1..Len(pkts) |-> pkts[i].data])

\* (sB - sA - 1) mod 65536
Gap(sA, sB) == (sB - sA - 1) % 65536

\* the warnings of a call on frames fs whose predecessor is prev (or <<>>)
RECURSIVE Warnings(_, _)
Warnings(prev, fs) ==
    IF fs = <<>> THEN <<>>
    ELSE (IF prev # <<>> /\ Gap(prev[1].packetNumber, fs[1].packetNumber) # 0
          THEN <<ToString(Gap(prev[1].packetNumber, fs[1].packetNumber))
                     \o " packets lost! Packet = "
                     \o ToString(fs[1].packetNumber)
                     \o ", Last = "
                     \o ToString(prev[1].packetNumber)>>
          ELSE <<>>)
             \o Warnings(<<fs[1]>>, Tail(fs))

\* the revisions that call PacketProcessor::process
ProcessorImpls == {"DAQCap", "PCapDevice"}

\* ------------------------------------------------------------------ claims
\* C1: since construction or reset, the data of all returned blobs followed
\* by the carry is the concatenation of all frame payloads without the idle
\* words at its word-aligned offsets (idle stripping enabled): no payload
\* byte is lost, duplicated, reordered or invented across calls.
C1_StreamConserved ==
    ~keptIdle => emitted \o unfinishedWords = StripIdle(stream)

\* a later call that began in the middle of a word has returned data, an
\* idle word has been dropped from the stream, and bytes are still carried
C1_Witness ==
    /\ lastOp = "fetch"
    /\ ~keptIdle
    /\ (Len(stream) - Len(Payload(packets))) % WORD_SIZE # 0
    /\ blob.dataBuffer # <<>>
    /\ Len(blob.dataBuffer) < Len(emitted)
    /\ Len(stream) > Len(emitted) + Len(unfinishedWords)
    /\ unfinishedWords # <<>>

\* C2: every returned blob holds a whole number of words:
\* len(data) mod WORD_SIZE = 0, whatever the payload lengths were.
C2_BlobWordAligned == Len(blob.dataBuffer) % WORD_SIZE = 0

\* a fetch of two frames, one empty and one whose length is no multiple of
\* WORD_SIZE, returned data
C2_Witness ==
    /\ lastOp = "fetch"
    /\ Len(packets) = 2
    /\ \E i \in 1..2 : packets[i].data = <<>>
    /\ \E i \in 1..2 : Len(packets[i].data) % WORD_SIZE # 0
    /\ blob.dataBuffer # <<>>

\* C3: the warnings of a blob returned by PacketProcessor::process are, in
\* frame order, one "{gap} packets lost! Packet = {seq(F)}, Last =
\* {seq(prev)}" for each frame F of the call whose predecessor prev (the
\* frame before it in the call, or the last frame taken in since reset)
\* exists and has (seq(F) - seq(prev) - 1) mod 65536 # 0, and no others.
C3_WarningsExact ==
    [][(lastOp' = "fetch" /\ impl \in ProcessorImpls)
          => blob'.warningsBuffer
                 = Warnings(lastFrame,
                            [i \in 1..Len(packets') |->
                                [packetNumber |-> packets'[i].packetNumber]])
      ]_vars

\* a call whose first frame follows the earlier call's last frame with a
\* gap, and whose second frame follows the first across the wrap without one
C3_Witness ==
    /\ lastOp = "fetch"
    /\ impl \in ProcessorImpls
    /\ Len(packets) = 2
    /\ counter = 3
    /\ packets[1].packetNumber = 65535
    /\ packets[2].packetNumber = 0
    /\ blob.warningsBuffer = <<"65533 packets lost! Packet = 65535, Last = 1">>

\* C4: for frames A (older) and B with packet numbers sA and sB,
\* packetsBetween is (sB - sA - 1) mod 65536, a value in 0..65535: 0 when
\* sB = sA + 1 mod 65536 (0xFFFF then 0 included), 65535 when sA = sB, and
\* 0xFFFE for sA = 0, sB = 0xFFFF.
C4_GapValue ==
    \A i, j \in 1..Len(packets) :
        i < j =>
            LET sA == packets[i].packetNumber
                sB == packets[j].packetNumber
                gap == packetsBetween(packets[i], packets[j])
            IN  /\ gap = (sB - sA - 1) % 65536
                /\ gap \in 0..65535
                /\ (sB = (sA + 1) % 65536) => gap = 0
                /\ (sA = sB) => gap = 65535
                /\ (sA = 0 /\ sB = 65535) => gap = 65534

\* a fetch took in packet 0 and then packet 0xFFFF and warned of 0xFFFE
\* lost packets
C4_Witness ==
    /\ lastOp = "fetch"
    /\ Len(packets) = 2
    /\ packets[1].packetNumber = 0
    /\ packets[2].packetNumber = 65535
    /\ packets[1].ID < packets[2].ID
    /\ blob.warningsBuffer = <<"65534 packets lost! Packet = 65535, Last = 0">>

\* C5: packetsBetween is symmetric: gap(A, B) = gap(B, A) for every pair of
\* frames, the frame with the lower ID being taken as the older one.
C5_GapSymmetric ==
    \A i, j \in 1..Len(packets) :
        packetsBetween(packets[i], packets[j])
            = packetsBetween(packets[j], packets[i])

\* a fetch took in packet 1 and then packet 0: the two orders of the
\* subtraction differ
C5_Witness ==
    /\ lastOp = "fetch"
    /\ Len(packets) = 2
    /\ packets[1].packetNumber = 1
    /\ packets[2].packetNumber = 0
    /\ packets[1].ID < packets[2].ID
    /\ packetsBetween(packets[2], packets[1]) = 65534

\* C6: with idle stripping enabled a fetch returns the words of the
\* carry-prefixed payload stream, in order and unchanged, except the words
\* equal to FF FF FF FF FF, which it drops; the words are the groups at the
\* word-aligned offsets of that stream, across frame and call boundaries.
C6_IdleWordsStripped ==
    [][(lastOp' = "fetch" /\ ~includingIdleWords)
          => blob'.dataBuffer
                 = Flatten(SelectSeq(
                       Words(unfinishedWords \o Payload(packets')),
                       LAMBDA w : ~IsIdle(w)))
      ]_vars

\* the first call kept 00 FF FF FF FF, five FF bytes of the stream off the
\* word boundary among them, and carried FF bytes; the second call completed
\* an idle word from the carry and dropped it
C6_Witness ==
    /\ lastOp = "fetch"
    /\ ~keptIdle
    /\ (Len(stream) - Len(Payload(packets))) % WORD_SIZE # 0
    /\ Payload(packets) # <<>>
    /\ blob.dataBuffer = <<>>
    /\ unfinishedWords = <<>>
    /\ emitted = <<0, 255, 255, 255, 255>>
    /\ Len(stream) = 2 * WORD_SIZE
    /\ stream[WORD_SIZE + 1] = 255

\* C7: the packetCount of a returned blob is the number of frames of that
\* call: frames with an empty payload, frames stripped as idle words and
\* frames moved to the carry count, frames of earlier calls do not.
C7_PacketCount == blob.packets = Len(packets)

\* after an earlier call, a call of an empty frame and a frame whose bytes
\* all went to the carry or were stripped returned no data and counts 2
C7_Witness ==
    /\ lastOp = "fetch"
    /\ counter = 3
    /\ Len(packets) = 2
    /\ packets[1].data = <<>>
    /\ packets[2].data # <<>>
    /\ blob.dataBuffer = <<>>
    /\ blob.packets = 2

\* C8: after a call the carry has (carry length before + payload bytes of
\* the call) mod WORD_SIZE bytes, so 0..WORD_SIZE-1, and they are the
\* trailing bytes of the carry-prefixed buffer, idle bytes included.
C8_CarryIsTrailingBytes ==
    [][lastOp' = "fetch"
          => LET buffer == unfinishedWords \o Payload(packets')
                 n == (Len(unfinishedWords) + Len(Payload(packets')))
                          % WORD_SIZE
             IN  /\ Len(unfinishedWords') = n
                 /\ n \in 0..(WORD_SIZE - 1)
                 /\ unfinishedWords'
                        = SubSeq(buffer, Len(buffer) - n + 1, Len(buffer))
      ]_vars

\* a call that began in the middle of a word took in two frames and is left
\* with a carry of four FF bytes
C8_Witness ==
    /\ lastOp = "fetch"
    /\ (Len(stream) - Len(Payload(packets))) % WORD_SIZE # 0
    /\ Len(packets) = 2
    /\ packets[1].data # <<>>
    /\ packets[2].data # <<>>
    /\ unfinishedWords = <<255, 255, 255, 255>>

\* C9: a fetch without frames returns a blob with packetCount 0, no data
\* and no warnings, and leaves the carry and the last packet as they were.
C9_EmptyFetchChangesNothing ==
    [][(lastOp' = "fetch" /\ packets' = <<>>)
          => /\ blob' = EmptyBlob
             /\ unfinishedWords' = unfinishedWords
             /\ lastPacket' = lastPacket
      ]_vars

\* a fetch without frames ran while bytes were carried and a packet stored
C9_Witness ==
    /\ lastOp = "fetch"
    /\ packets = <<>>
    /\ unfinishedWords # <<>>
    /\ lastPacket # <<>>
    /\ lastPacket[1].ID > 0
    /\ blob = EmptyBlob

\* C10: ending a session clears the carry and the last frame, in every
\* revision of close: after close the carry is empty and the last packet is
\* the sentinel.
C10_CloseClearsAccumulator ==
    lastOp = "close"
        => /\ unfinishedWords = <<>>
           /\ IF impl = "Session"
              THEN ~IsValid(lastPacket[1])
              ELSE lastPacket = <<>>

\* C11: a fetch called while no session is open (no open or start has
\* succeeded since the last close, end or failed start) fails with NotOpen,
\* dispatches nothing and leaves the carry and the last frame alone.
C11_NotOpenFails ==
    [][(/\ pc = "idle"
        /\ closer = "idle"
        /\ ~(handler /\ activated)
        /\ pc' # "idle" \/ outcome' # outcome)
          => /\ outcome' = "NotOpen"
             /\ pc' = "idle"
             /\ UNCHANGED <<unfinishedWords, lastPacket, lastFrame, counter,
                            g_packetBuffer>>]_vars

\* C12: a fetch whose finite timeout ran out without a frame having been
\* received ends in TimeoutExceeded, not in a blob.
C12_TimeoutRaises ==
    (pc = "idle" /\ expired /\ received = {})
        => outcome = "TimeoutExceeded"

\* C13: a fetch with a finite timeout that found a frame waiting on the open
\* device, was not interrupted and met no capture error returns a blob that
\* holds the frames it received, at least one, and does not time out.
C13_AvailableFrameFetched ==
    (pc = "idle" /\ fetched /\ finite /\ avail /\ ~broken
        /\ outcome # "CaptureError")
        => /\ outcome = "blob"
           /\ received # {}
           /\ received = PacketIDs(packets)

\* C14: the frames delivered while a fetch that ended in TimeoutExceeded was
\* in progress are not lost: each has been returned in a blob of the session
\* or is still held for a later fetch to return.
C14_TimedOutFramesKept ==
    owed \subseteq (returned \cup PacketIDs(g_packetBuffer)
                        \cup PacketIDs(taskResult.packets))

\* C15: no interrupt request survives a timed-out fetch: when a fetch has
\* ended in TimeoutExceeded and interrupt() has not been called since it
\* began, the break flag of the handle is clear, so the next dispatch is not
\* cut short.
C15_NoStaleInterrupt ==
    (pc = "idle" /\ outcome = "TimeoutExceeded" /\ ~interrupted)
        => ~break_loop

C17_InterruptKeepsFrames ==
    (pc = "idle" /\ fetched /\ broken /\ ~expired /\ received # {})
        => /\ outcome = "blob"
           /\ blob.packets = Cardinality(received)
           /\ PacketIDs(packets) = received
           /\ lastFrame # <<>>

\* C18: close() on another thread does not release the capture handle, nor
\* clear the shared packet buffer, under a fetch that is still inside its
\* wait or its dispatch: such a fetch holds a live handle and has never been
\* left with a released one.
C18_CloseWaitsForFetch ==
    /\ pc \in {"select", "dispatch"} => (handler /\ closer # "released")
    /\ ~dangling

\* C19: in a session, every fetch with a finite timeout that is in flight
\* eventually completes, whatever the platform offers and even if no frame
\* arrives.
C19_FiniteFetchCompletes ==
    (impl = "Session" /\ pc # "idle" /\ finite) ~> (pc = "idle")

MaxInstances == 4

\* what pcap_findalldevs may list: every name at most once, in any order
HostLists ==
    {l \in UNION {[1..n -> HostNames] : n \in 0..Cardinality(HostNames)} :
        \A i, j \in 1..Len(l) : l[i] = l[j] => i = j}

\* the handles of a sequence of handles
Handles(list) == {list[i] : i \in 1..Len(list)}

\* new PCapDevice(d->name, ...) for each entry of the host's list
Fresh(names, n) ==
    [i \in 1..Len(names) |-> [name |-> names[i], inst |-> n + i]]

\* the first handle of the list with the name, as a list of at most one
RECURSIVE Lookup(_, _)
Lookup(list, name) ==
    IF list = <<>> THEN <<>>
    ELSE IF Head(list).name = name THEN <<Head(list)>>
    ELSE Lookup(Tail(list), name)

\* g_devices.emplace(d->name, PCapDevice(d)) for each listed name that the
\* map does not hold
RECURSIVE Emplace(_, _, _)
Emplace(names, g, n) ==
    IF names = <<>> THEN [g |-> g, n |-> n]
    ELSE IF \E h \in g : h.name = Head(names)
         THEN Emplace(Tail(names), g, n)
    ELSE Emplace(Tail(names),
                 g \cup {[name |-> Head(names), inst |-> n + 1]}, n + 1)

\* Device::getAllDevices of DAQCap.cpp: an error of pcap_findalldevs gives
\* the empty vector; else &g_devices.at(d->name) for each listed name
EnumDAQCap ==
    IF enumFails
    THEN [error |-> FALSE, list |-> <<>>, g |-> g_devices, n |-> instances]
    ELSE LET e == Emplace(host, g_devices, instances)
         IN  [error |-> FALSE,
              list |-> [i \in 1..Len(host) |->
                          CHOOSE h \in e.g : h.name = host[i]],
              g |-> e.g, n |-> e.n]

\* PCapDevice::getAllNetworkDevices of NetworkInterfaces/PCapDevice.cpp and
\* PCapManager::getAllDevices: an error of pcap_findalldevs throws; else a
\* new instance for each listed name
EnumPCap ==
    IF enumFails
    THEN [error |-> TRUE, list |-> <<>>, n |-> instances]
    ELSE [error |-> FALSE, list |-> Fresh(host, instances),
          n |-> instances + Len(host)]

\* a getAllNetworkDevices that asks the manager on every call
EnumSession_always == EnumPCap

\* SessionHandler_impl::getAllNetworkDevices: the cache if it is not empty,
\* else what the manager enumerates, which becomes the cache
EnumSession ==
    IF networkDeviceCache # <<>>
    THEN [error |-> FALSE, list |-> networkDeviceCache, n |-> instances]
    ELSE EnumPCap

\* the registry call returns: its result, and the handles it gave out
Answered(op, name, error, list) ==
    /\ regOut' = [op |-> op, name |-> name, error |-> error, list |-> list]
    /\ handed' = handed \cup Handles(list)
    /\ UNCHANGED <<procVars, ioVars, started, libVars, host, enumFails>>

\* Device::getAllDevices of DAQCap.cpp
GetAllDAQCap ==
    /\ impl = "DAQCap"
    /\ LET e == EnumDAQCap
       IN  /\ g_devices' = e.g
           /\ instances' = e.n
           /\ Answered("getAll", "", e.error, e.list)
    /\ UNCHANGED networkDeviceCache

\* Device::getDevice of DAQCap.cpp
GetDeviceDAQCap ==
    /\ impl = "DAQCap"
    /\ \E name \in Names :
          LET e == EnumDAQCap
          IN  /\ g_devices' = e.g
              /\ instances' = e.n
              /\ Answered("get", name, e.error, Lookup(e.list, name))
    /\ UNCHANGED networkDeviceCache

\* PCapDevice::getAllNetworkDevices of NetworkInterfaces/PCapDevice.cpp
GetAllPCapDevice ==
    /\ impl = "PCapDevice"
    /\ LET e == EnumPCap
       IN  /\ e.n <= MaxInstances
           /\ instances' = e.n
           /\ Answered("getAll", "", e.error, e.list)
    /\ UNCHANGED <<networkDeviceCache, g_devices>>

\* PCapDevice::getNetworkDevice of NetworkInterfaces/PCapDevice.cpp
GetDevicePCapDevice ==
    /\ impl = "PCapDevice"
    /\ \E name \in Names :
          LET e == EnumPCap
          IN  /\ e.n <= MaxInstances
              /\ instances' = e.n
              /\ Answered("get", name, e.error, Lookup(e.list, name))
    /\ UNCHANGED <<networkDeviceCache, g_devices>>

\* SessionHandler_impl::getAllNetworkDevices
GetAllSession ==
    /\ impl = "Session"
    /\ LET e == EnumSession
       IN  /\ e.n <= MaxInstances
           /\ instances' = e.n
           /\ networkDeviceCache' = IF e.error THEN networkDeviceCache
                                    ELSE e.list
           /\ Answered("getAll", "", e.error, e.list)
    /\ UNCHANGED g_devices

\* SessionHandler_impl::getNetworkDevice: the null device for the empty
\* name; what getAllNetworkDevices throws is caught and gives the null device
GetDeviceSession ==
    /\ impl = "Session"
    /\ \E name \in Names :
          LET e == IF name = ""
                   THEN [error |-> FALSE, list |-> networkDeviceCache,
                         n |-> instances]
                   ELSE EnumSession
          IN  /\ e.n <= MaxInstances
              /\ instances' = e.n
              /\ networkDeviceCache' = IF e.error THEN networkDeviceCache
                                       ELSE e.list
              /\ Answered("get", name, FALSE, Lookup(e.list, name))
    /\ UNCHANGED g_devices

\* SessionHandler::clearDeviceCache
ClearDeviceCache ==
    /\ impl = "Session"
    /\ networkDeviceCache' = <<>>
    /\ regOut' = [op |-> "clear", name |-> "", error |-> FALSE, list |-> <<>>]
    /\ UNCHANGED <<procVars, ioVars, started, libVars, host, enumFails, g_devices,
                   instances, handed>>

\* an interface comes or goes, the order of the host's list changes, or
\* pcap_findalldevs begins or ceases to fail
HostChanges ==
    /\ host' \in HostLists
    /\ enumFails' \in BOOLEAN
    /\ UNCHANGED <<procVars, ioVars, started, libVars, networkDeviceCache, g_devices,
                   instances, handed, regOut>>

\* a handler with no session on a host with any list of interfaces
InitReg ==
    /\ impl \in Impls
    /\ host \in HostLists
    /\ enumFails \in BOOLEAN
    /\ handler = FALSE
    /\ includingIdleWords = FALSE
    /\ unfinishedWords = <<>>
    /\ lastPacket = IF impl = "Session" THEN <<NullPacket>> ELSE <<>>
    /\ counter = 0
    /\ packets = <<>>
    /\ blob = EmptyBlob
    /\ lastOp = "init"
    /\ stream = <<>>
    /\ emitted = <<>>
    /\ lastFrame = <<>>
    /\ keptIdle = FALSE
    /\ canInterrupt = TRUE
    /\ canSelect = TRUE
    /\ readTimeout = TRUE
    /\ Idle
    /\ RegIdle
    /\ LibIdle

\* the registry calls on a host whose interfaces change
NextReg ==
    \/ HostChanges
    \/ GetAllDAQCap
    \/ GetDeviceDAQCap
    \/ GetAllPCapDevice
    \/ GetDevicePCapDevice
    \/ GetAllSession
    \/ GetDeviceSession
    \/ ClearDeviceCache

SpecReg == InitReg /\ [][NextReg]_vars

\* the sessions of a handler on a host whose interfaces change
NextStart ==
    \/ HostChanges
    \/ StartRejected
    \/ StartEnumFails
    \/ StartSession
    \/ EndSession
    \/ FetchNotOpen

SpecStart == InitReg /\ [][NextStart]_vars

\* ------------------------------------------------------------------- C21
\* the names of the host's list
Listed == {host[i] : i \in 1..Len(host)}

\* a step in which a startSession call ends
StartStep ==
    /\ impl = "Session"
    /\ lastOp' \in {"startRejected", "startError", "startInProgress",
                    "openFailed", "restart", "open"}
    /\ <<lastOp, started>>' # <<lastOp, started>>

\* C21: startSession of a device whose name is in the list the host
\* enumerates is not refused as unknown, at whichever place of the list the
\* name stands, and if the capture handle can be created a session on that
\* device is open afterwards, so that fetchData does not fail with NotOpen
C21_StartListedDevice ==
    [][(StartStep /\ ~enumFails /\ started' \in Listed)
          => /\ lastOp' # "startRejected"
             /\ lastOp' # "openFailed"
                   => hasOpenSession' /\ device' = started']_vars

\* ------------------------------------------------------------------- C22
\* C22: startSession of the empty device, or of a device whose name is not
\* in the list the host enumerates, raises an error and opens no session,
\* whatever the list is: empty, or beginning with another name
C22_StartUnknownDevice ==
    [][(StartStep /\ ~enumFails /\ started' \notin Listed)
          => lastOp' \notin {"open", "restart"}]_vars

\* ------------------------------------------------------------------- C23
\* everything but the record of the last operation
Rest ==
    <<impl, handler, includingIdleWords, unfinishedWords, lastPacket, counter,
      packets, blob, stream, emitted, lastFrame, keptIdle, ioVars, regVars,
      started>>

\* open() returns or throws on a device that holds a handle
OpenAgainStep ==
    /\ impl # "Session"
    /\ handler
    /\ lastOp' \in {"openAgain", "openInProgress"}
    /\ lastOp' # lastOp

\* close() or endSession() returns where no handle is held and no call is
\* in flight
CloseAgainStep ==
    /\ ~handler
    /\ pc = "idle"
    /\ closer = "idle"
    /\ lastOp' = "close"

\* C23: open() on an open device raises nothing and changes nothing, the
\* handle is kept; close() or endSession() where nothing is open raises
\* nothing and changes nothing; so a second open or close in a row leaves
\* the state the first one left
C23_LifecycleIdempotent ==
    [][/\ OpenAgainStep => lastOp' = "openAgain" /\ UNCHANGED Rest
       /\ CloseAgainStep => UNCHANGED Rest]_vars

\* ------------------------------------------------------------------- C24
\* C24: right after an open() or startSession() that failed, at whichever
\* step, no capture handle is held: the device is closed, isOpen is false
\* and a fetch would fail with NotOpen
C24_FailedOpenClosed ==
    lastOp = "openFailed" =>
        /\ ~handler
        /\ device = ""
        /\ ~activated
        /\ ENABLED FetchNotOpen

\* ------------------------------------------------------------------- C25
\* what a caller of the session sees and what the next fetch starts from
SessionState ==
    <<handler, device, includingIdleWords, unfinishedWords, lastPacket,
      packets, blob, emitted>>

C26_LimitCapsBlob ==
    [][(pc # "idle" /\ pc' = "idle" /\ outcome' = "blob" /\ limit >= 0)
          => /\ blob'.packets <= limit
             /\ Cardinality(received) <= limit]_vars

\* ------------------------------------------------------------------- C27
\* an enumeration or a lookup returns or throws
RegistryStep ==
    /\ regOut' # regOut
    /\ regOut'.op \in {"getAll", "get"}

\* C27: while pcap_findalldevs fails, an enumeration returns the empty list
\* and a lookup returns null, neither raises an error, and the registry, the
\* cache and the session are left as they were
C27_EnumerationFailureSilent ==
    [][(RegistryStep /\ enumFails)
          => /\ ~regOut'.error
             /\ regOut'.list = <<>>
             /\ UNCHANGED <<procVars, ioVars, started, libVars, networkDeviceCache,
                            g_devices, instances, handed>>]_vars

\* ------------------------------------------------------------------- C28
\* the names of a list of handles, in its order
NamesOf(list) == [i \in 1..Len(list) |-> list[i].name]

C29_OneInstancePerName ==
    /\ \A g, h \in g_devices : g.name = h.name => g = h
    /\ \A g, h \in handed : g.name = h.name => g = h
    /\ \A g \in g_devices, h \in handed : g.name = h.name => g = h

\* ------------------------------------------------------------------- C30
\* C30: a handler strips idle words until it is told otherwise; a fetch of
\* a handler told to include them returns every complete word of the carry
\* followed by the payloads, the words FF FF FF FF FF among them, and apart
\* from those words it returns what the stripping fetch would: the same
\* other words, the same carry and last packet, the same packet count and
\* the same warnings
C30_IdleWordsIncluded ==
    [][/\ lastOp = "init" => ~includingIdleWords
       /\ (impl = "Session" /\ lastOp' = "fetch") =>
             LET on == SessionProcess(unfinishedWords, lastPacket, packets',
                                      TRUE)
                 off == SessionProcess(unfinishedWords, lastPacket, packets',
                                       FALSE)
                 all == Words(unfinishedWords \o Payload(packets'))
             IN  /\ blob' = IF includingIdleWords THEN on.blob ELSE off.blob
                 /\ unfinishedWords' = on.unfinishedWords
                 /\ lastPacket' = on.lastPacket
                 /\ on.blob.dataBuffer = Flatten(all)
                 /\ off.blob.dataBuffer =
                       Flatten(SelectSeq(all, LAMBDA w : ~IsIdle(w)))
                 /\ on.unfinishedWords = off.unfinishedWords
                 /\ on.lastPacket = off.lastPacket
                 /\ on.blob.packets = off.blob.packets
                 /\ on.blob.warningsBuffer = off.blob.warningsBuffer]_vars

\* a fetch of a handler told to include idle words returned one, after an
\* earlier fetch had returned words, and left a carry
C30_Witness ==
    /\ impl = "Session"
    /\ includingIdleWords
    /\ lastOp = "fetch"
    /\ \E k \in 1..Len(Words(blob.dataBuffer)) :
          IsIdle(Words(blob.dataBuffer)[k])
    /\ Len(emitted) > Len(blob.dataBuffer)
    /\ unfinishedWords # <<>>

\* ------------------------------------------------------------------- C31
\* C31: interrupt() where no handle is held changes nothing; where a handle
\* is held it leaves the handle, its device, the carry, the last packet and
\* everything a caller has seen as they are: the device stays open
C31_InterruptKeepsState ==
    [][/\ ~handler => ~ENABLED <<Interrupt>>_vars
       /\ Interrupt =>
             /\ UNCHANGED <<handler, device, activated, procVars>>
             /\ UNCHANGED <<pc, closer, outcome, g_packetBuffer, wire>>]_vars

\* interrupt() was called on an open device that has a carry and a last
\* packet in place
C31_Witness ==
    /\ handler
    /\ activated
    /\ interrupted
    /\ pc = "idle"
    /\ unfinishedWords # <<>>
    /\ lastFrame # <<>>

\* ---------------------------------------------------------- DataBlob::pack
MaxBytes == 10

\* the byte values of the blobs that are packed
PackBytes == {0, 1, 255}

RECURSIVE BytesUpTo(_)
\* the byte sequences of length at most n
BytesUpTo(n) ==
    IF n = 0 THEN {<<>>}
    ELSE LET shorter == BytesUpTo(n - 1)
         IN  shorter \cup {Append(d, b) : d \in {x \in shorter : Len(x) = n - 1},
                                          b \in PackBytes}

RECURSIVE Or8(_, _, _)
\* a | b on the low n bits of two bytes
Or8(a, b, n) ==
    IF n = 0 THEN 0
    ELSE (IF a % 2 = 1 \/ b % 2 = 1 THEN 1 ELSE 0)
         + 2 * Or8(a \div 2, b \div 2, n - 1)

\* the value of a size_t where it indexes a blob of the model, else -1
Small(w) ==
    IF \A k \in 2..8 : w[k] = 0 THEN w[1] ELSE -1

RECURSIVE Plus(_, _, _)
\* w + n on a size_t from byte k upward, modulo 2^64
Plus(w, n, k) ==
    IF k > 8 \/ n = 0 THEN w
    ELSE Plus([w EXCEPT ![k] = (w[k] + n) % 256], (w[k] + n) \div 256, k + 1)

\* dataBuffer[...] << (8 * byte): the byte is promoted to int and shifted. A
\* shift into or past the sign bit of the int is undefined before C++20; the
\* builds give the two's complement value, converted to size_t with its sign
\* (byte 3), and for a shift by the width of the int either the value shifted
\* by 0 or 0 (byte 4)
Shifted(b, k) ==
    IF k < 3 THEN {[Zero64 EXCEPT ![k + 1] = b]}
    ELSE IF k = 3
    THEN {[i \in 1..8 |-> IF i = 4 THEN b
                          ELSE IF i > 4 /\ b >= 128 THEN 255 ELSE 0]}
    ELSE {[Zero64 EXCEPT ![1] = b], Zero64}

\* DataBlob::pack is called on a blob
PackCalled ==
    /\ packPc = "none"
    /\ wordStart' = Zero64
    /\ byte' = 0
    /\ packedData' = <<>>
    /\ packPc' = "check"
    /\ UNCHANGED <<coreVars, listenVars, idVars, workerVars, splitVars, dataBuffer>>

\* a blob with a partial word: std::logic_error
PackThrows ==
    /\ packPc = "check"
    /\ Len(dataBuffer) % WORD_SIZE # 0
    /\ packPc' = "logic_error"
    /\ UNCHANGED <<coreVars, listenVars, idVars, workerVars, splitVars, dataBuffer, wordStart,
                   byte, packedData>>

\* the outer loop is entered, with int word = 0
PackLoop ==
    /\ packPc = "check"
    /\ Len(dataBuffer) % WORD_SIZE = 0
    /\ packPc' = "outer"
    /\ UNCHANGED <<coreVars, listenVars, idVars, workerVars, splitVars, dataBuffer, wordStart,
                   byte, packedData>>

\* wordStart < dataBuffer.size(): the body begins, else packedData is returned
PackTest ==
    /\ packPc = "outer"
    /\ byte' = 0
    /\ packPc' = IF Small(wordStart) \in 0..(Len(dataBuffer) - 1)
                 THEN "inner" ELSE "returned"
    /\ UNCHANGED <<coreVars, listenVars, idVars, workerVars, splitVars, dataBuffer, wordStart,
                   packedData>>

\* wordStart |= dataBuffer[wordStart + byte] << (8 * byte): the loop index
\* takes the byte, no word is built; a read past the end of the vector is
\* undefined
PackByte ==
    /\ packPc = "inner"
    /\ byte < WORD_SIZE
    /\ LET at == Small(Plus(wordStart, byte, 1))
       IN  IF at \in 0..(Len(dataBuffer) - 1)
           THEN \E sh \in Shifted(dataBuffer[at + 1], byte) :
                   /\ wordStart' = [i \in 1..8 |-> Or8(wordStart[i], sh[i], 8)]
                   /\ byte' = byte + 1
                   /\ packPc' = "inner"
           ELSE /\ packPc' = "undefined"
                /\ UNCHANGED <<wordStart, byte>>
    /\ UNCHANGED <<coreVars, listenVars, idVars, workerVars, splitVars, dataBuffer, packedData>>

\* the inner loop is left with nothing pushed; wordStart += Packet::wordSize()
PackNext ==
    /\ packPc = "inner"
    /\ byte = WORD_SIZE
    /\ wordStart' = Plus(wordStart, WORD_SIZE, 1)
    /\ packPc' = "outer"
    /\ UNCHANGED <<coreVars, listenVars, idVars, workerVars, splitVars, dataBuffer, byte,
                   packedData>>

\* a blob of any bytes, of whole words or not
InitPack ==
    /\ impl = "DAQCap"
    /\ handler = FALSE
    /\ includingIdleWords = FALSE
    /\ unfinishedWords = <<>>
    /\ lastPacket = IF impl = "Session" THEN <<NullPacket>> ELSE <<>>
    /\ counter = 0
    /\ packets = <<>>
    /\ blob = EmptyBlob
    /\ lastOp = "init"
    /\ stream = <<>>
    /\ emitted = <<>>
    /\ lastFrame = <<>>
    /\ keptIdle = FALSE
    /\ canInterrupt = TRUE
    /\ canSelect = TRUE
    /\ readTimeout = TRUE
    /\ Idle
    /\ host = HostDevices
    /\ enumFails = FALSE
    /\ RegIdle
    /\ dataBuffer \in BytesUpTo(MaxBytes)
    /\ wordStart = Zero64
    /\ byte = 0
    /\ packedData = <<>>
    /\ packPc = "none"
    /\ raw = <<>>
    /\ calls = 0
    /\ dropped = 0
    /\ raised = FALSE
    /\ ctor = [t \in Threads |-> NoCtor]
    /\ built = <<>>
    /\ NoWorker
    /\ whole = <<>>
    /\ todo = <<>>
    /\ warned = <<>>
    /\ counted = 0
    /\ ncalls = 0

NextPack ==
    \/ PackCalled
    \/ PackThrows
    \/ PackLoop
    \/ PackTest
    \/ PackByte
    \/ PackNext

SpecPack == InitPack /\ [][NextPack]_vars

\* ------------------------------------------------------------------- C32
\* the words of a byte sequence: one per full group of five bytes, each the
\* five bytes of the group, most significant first (the low 40 bits of the
\* word in big-endian order)
BigEndianWords(data) ==
    [i \in 1..(Len(data) \div WORD_SIZE) |->
        SubSeq(data, WORD_SIZE * (i - 1) + 1, WORD_SIZE * i)]

\* C32: packing a byte sequence of length L ends without an error and
\* returns floor(L / 5) words, word i holding bytes 5i..5i+4 of the input in
\* big-endian order, a trailing partial group dropped
C32_PackReturnsWords ==
    /\ packPc \notin {"logic_error", "undefined"}
    /\ packPc = "returned" => packedData = BigEndianWords(dataBuffer)

\* ------------------------------------------- listen_callback on raw frames
PRELOAD_BYTES == 14
POSTLOAD_BYTES == 4

\* longest payload of a raw frame
MaxRawPayload == 1

\* most raw frames one dispatch hands over
MaxRaw == 2

\* n bytes of no interest: the pre-load, the first half of the post-load and
\* all of a frame that is too short to be read
Filler(n) == [i \in 1..n |-> 0]

\* the two bytes of a packet number, most significant first
Trailers == {<<s \div 256, s % 256>> : s \in SeqNums}

\* what pcap_dispatch may hand to the callback: any frame too short to be a
\* packet, and the frames of a short payload with any packet number
RawFrames ==
    {Filler(n) : n \in 0..(PRELOAD_BYTES + POSTLOAD_BYTES - 1)}
        \cup {Filler(PRELOAD_BYTES) \o d \o Filler(2) \o t :
                 d \in {p \in Payloads : Len(p) <= MaxRawPayload},
                 t \in Trailers}

RawLists == UNION {[1..n -> RawFrames] : n \in 0..MaxRaw}

\* Packet::Packet(raw_data, size) rejecting also a frame with no payload
RawPacket_strict(rawData, id) ==
    IF Len(rawData) <= PRELOAD_BYTES + POSTLOAD_BYTES
    THEN [thrown |-> "invalid_argument", packet |-> NullPacket]
    ELSE [thrown |-> "",
          packet |-> Packet(SubSeq(rawData, PRELOAD_BYTES + 1,
                                   Len(rawData) - POSTLOAD_BYTES),
                            rawData[Len(rawData) - 1] * 256
                                + rawData[Len(rawData)],
                            id)]

\* Packet::Packet(raw_data, size): throws on less than 18 bytes, else reads
\* the packet number from the last two bytes and the data between pre-load
\* and post-load
RawPacket(rawData, id) ==
    IF Len(rawData) < PRELOAD_BYTES + POSTLOAD_BYTES
    THEN [thrown |-> "invalid_argument", packet |-> NullPacket]
    ELSE [thrown |-> "",
          packet |-> Packet(SubSeq(rawData, PRELOAD_BYTES + 1,
                                   Len(rawData) - POSTLOAD_BYTES),
                            rawData[Len(rawData) - 1] * 256
                                + rawData[Len(rawData)],
                            id)]

\* a fetch reaches pcap_dispatch, which has these frames to hand over;
\* PCapManager::fetchPackets clears the buffer first
ListenBegins ==
    /\ handler
    /\ pc = "idle"
    /\ \E rs \in RawLists :
          /\ counter + Len(rs) <= MaxPackets
          /\ raw' = rs
    /\ calls' = 0
    /\ dropped' = 0
    /\ g_packetBuffer' = IF impl = "Session" THEN <<>> ELSE g_packetBuffer
    /\ pc' = "listen"
    /\ UNCHANGED <<procVars, regVars, started, packVars, idVars, workerVars, splitVars, raised,
                   canInterrupt, canSelect, readTimeout, device, activated,
                   break_loop, wire, finite, limit, task, taskResult, closer,
                   dangling, outcome, sent, expired, received, broken, owed,
                   returned, avail, armed, interrupted, fetched>>

\* listen_callback on the next frame: g_packetBuffer.emplace_back(packet_data,
\* header->len) in a try block that catches what the constructor throws; the
\* static counter moves only where the constructor gets to its end
ListenCallback ==
    /\ pc = "listen"
    /\ raw # <<>>
    /\ LET p == RawPacket(Head(raw), counter)
       IN  IF p.thrown # ""
           THEN /\ dropped' = dropped + 1
                /\ UNCHANGED <<g_packetBuffer, counter>>
           ELSE /\ g_packetBuffer' = Append(g_packetBuffer, p.packet)
                /\ counter' = counter + 1
                /\ UNCHANGED dropped
    /\ raw' = Tail(raw)
    /\ calls' = calls + 1
    /\ raised' = FALSE
    /\ UNCHANGED <<impl, handler, includingIdleWords, unfinishedWords,
                   lastPacket, packets, blob, lastOp, stream, emitted,
                   lastFrame, keptIdle, regVars, started, packVars, idVars, workerVars, splitVars,
                   canInterrupt, canSelect, readTimeout, device, activated,
                   break_loop, wire, pc, finite, limit, task, taskResult,
                   closer, dangling, outcome, sent, expired, received, broken,
                   owed, returned, avail, armed, interrupted, fetched>>

\* pcap_dispatch returns the number of frames it handed over; the buffer is
\* taken (swapped or moved out) and processed into the blob of the fetch
ListenEnds ==
    /\ pc = "listen"
    /\ raw = <<>>
    /\ \E side \in Sides :
          LET r == IF impl = "Session"
                   THEN SessionProcess(unfinishedWords, lastPacket,
                                       g_packetBuffer, includingIdleWords)
                   ELSE process(side, unfinishedWords, lastPacket,
                                g_packetBuffer)
          IN  /\ packets' = g_packetBuffer
              /\ blob' = r.blob
              /\ unfinishedWords' = r.unfinishedWords
              /\ lastPacket' = r.lastPacket
              /\ stream' = stream \o Payload(g_packetBuffer)
              /\ emitted' = emitted \o r.blob.dataBuffer
              /\ lastFrame' = IF g_packetBuffer = <<>> THEN lastFrame
                              ELSE LET l == g_packetBuffer[Len(g_packetBuffer)]
                                   IN  <<[data |-> l.data,
                                          packetNumber |-> l.packetNumber]>>
              /\ keptIdle' = (keptIdle
                                \/ (includingIdleWords /\ g_packetBuffer # <<>>))
    /\ g_packetBuffer' = <<>>
    /\ lastOp' = "fetch"
    /\ pc' = "idle"
    /\ UNCHANGED <<impl, handler, includingIdleWords, counter, regVars,
                   started, libVars, canInterrupt, canSelect, readTimeout,
                   device, activated, break_loop, wire, finite, limit, task,
                   taskResult, closer, dangling, outcome, sent, expired,
                   received, broken, owed, returned, avail, armed,
                   interrupted, fetched>>

NextListen ==
    \/ Open
    \/ ListenBegins
    \/ ListenCallback
    \/ ListenEnds

SpecListen == Init /\ [][NextListen]_vars

BoundaryGapReported ==
    (/\ impl = "Session"
     /\ lastFrame # <<>>
     /\ packets' # <<>>
     /\ Gap(lastFrame[1].packetNumber, packets'[1].packetNumber) # 0)
        => /\ blob'.warningsBuffer # <<>>
           /\ Head(blob'.warningsBuffer)
                 = Head(Warnings(lastFrame,
                                 <<[packetNumber |-> packets'[1].packetNumber]>>))

\* C34: every frame of a fetch has an ID of at least 1 and is valid, the
\* last packet kept after a fetch with frames is valid, and so the gap
\* between the first frame ever constructed and the first frame of the next
\* fetch is reported
C34_IdsFromOne ==
    [][lastOp' = "fetch"
          => /\ \A i \in DOMAIN packets' :
                   packets'[i].ID >= 1 /\ IsValid(packets'[i])
             /\ lastFrame' # <<>>
                   => lastPacket' # <<>> /\ IsValid(lastPacket'[1])
             /\ BoundaryGapReported]_vars

\* --------------------------------------- the static counter under threads
\* most frames constructed
MaxBuilt == 3

\* ID = counter in thread t: the counter is read with no lock and no atomic
CtorLoads ==
    /\ Len(built) + Cardinality({t \in Threads : ctor[t].pc # "idle"})
          < MaxBuilt
    /\ \E t \in Threads :
          /\ ctor[t].pc = "idle"
          /\ ctor' = [ctor EXCEPT ![t] = [pc |-> "loaded", ID |-> counter,
                                          value |-> counter]]
    /\ UNCHANGED <<coreVars, packVars, listenVars, workerVars, splitVars, built>>

\* ++counter in a build that reads the counter again for it
CtorReloads ==
    /\ \E t \in Threads :
          /\ ctor[t].pc = "loaded"
          /\ ctor' = [ctor EXCEPT ![t].pc = "reloaded", ![t].value = counter]
    /\ UNCHANGED <<coreVars, packVars, listenVars, workerVars, splitVars, built>>

\* ++counter stores the value it holds plus one; the constructor ends
CtorStores ==
    /\ \E t \in Threads :
          /\ ctor[t].pc \in {"loaded", "reloaded"}
          /\ counter' = ctor[t].value + 1
          /\ built' = Append(built, ctor[t].ID)
          /\ ctor' = [ctor EXCEPT ![t].pc = "idle"]
    /\ UNCHANGED <<impl, handler, includingIdleWords, unfinishedWords,
                   lastPacket, packets, blob, lastOp, stream, emitted,
                   lastFrame, keptIdle, ioVars, regVars, started, packVars,
                   listenVars, workerVars, splitVars>>

NextIds ==
    \/ CtorLoads
    \/ CtorReloads
    \/ CtorStores

SpecIds == Init /\ [][NextIds]_vars

\* ------------------------------------------------------------------- C35
\* C35: the IDs of the frames are strictly increasing in the order the
\* frames were constructed, so no two are equal, and the counter has moved
\* once for each frame, whichever threads constructed them
C35_IdsIncrease ==
    /\ \A i, j \in DOMAIN built : i < j => built[i] < built[j]
    /\ (\A t \in Threads : ctor[t].pc = "idle") => counter = Len(built)

\* ------------------------------------------------------- DAQThread::Worker
\* the priorities tasks are given; 0 is the default
Priorities == {0, 1}

\* TaskComparator
TaskLess(lhs, rhs) == lhs.priority < rhs.priority

RECURSIVE PushHeap(_, _, _)
\* std::push_heap as the priority queue runs it: the value moves up from
\* position hole (counted from 0) past every parent that compares less
PushHeap(v, hole, value) ==
    LET parent == (hole - 1) \div 2
    IN  IF hole > 0 /\ TaskLess(v[parent + 1], value)
        THEN PushHeap([v EXCEPT ![hole + 1] = v[parent + 1]], parent, value)
        ELSE [v EXCEPT ![hole + 1] = value]

RECURSIVE AdjustHeap(_, _, _)
\* std::pop_heap, first half: the hole left at the top moves down to a leaf,
\* each time to the right child unless the right child compares less than
\* the left one; yields the vector and the position of the hole
AdjustHeap(v, hole, len) ==
    IF hole < (len - 1) \div 2
    THEN LET right == 2 * (hole + 1)
             child == IF TaskLess(v[right + 1], v[right]) THEN right - 1
                      ELSE right
         IN  AdjustHeap([v EXCEPT ![hole + 1] = v[child + 1]], child, len)
    ELSE IF len % 2 = 0 /\ hole = (len - 2) \div 2
    THEN [v |-> [v EXCEPT ![hole + 1] = v[2 * (hole + 1)]],
          hole |-> 2 * (hole + 1) - 1]
    ELSE [v |-> v, hole |-> hole]

\* tasks.emplace(task, priority): push_back, then push_heap
Emplaced(v, t) == PushHeap(Append(v, t), Len(v), t)

\* tasks.pop(): pop_heap, then pop_back
Popped(v) ==
    IF Len(v) <= 1 THEN <<>>
    ELSE LET len == Len(v) - 1
             a == AdjustHeap(SubSeq(v, 1, len), 0, len)
         IN  PushHeap(a.v, a.hole, v[Len(v)])

\* the tasks of a sequence without the task t
Without(s, t) == SelectSeq(s, LAMBDA x : x # t)

\* a notify that wakes no one
Notified_lost == wpc

\* cv.notify_one / cv.notify_all: a worker blocked in cv.wait is woken
Notified == IF wpc = "blocked" THEN "woken" ELSE wpc

\* Worker::Worker(): the thread starts
WorkerStarts ==
    /\ wpc = "none"
    /\ wpc' = "loop"
    /\ UNCHANGED <<coreVars, packVars, listenVars, idVars, splitVars, tasks,
                   isTerminated, m, current, apc, atask, tpc, status, pending>>

\* while(!isTerminated), read with the mutex not held
WorkerTests ==
    /\ wpc = "loop"
    /\ wpc' = IF isTerminated THEN "exited" ELSE "lock"
    /\ UNCHANGED <<coreVars, packVars, listenVars, idVars, splitVars, tasks,
                   isTerminated, m, current, apc, atask, tpc, status, pending>>

\* std::unique_lock<std::mutex> lock(m), and the lock taken again by a
\* worker that was woken in cv.wait
WorkerLocks ==
    /\ wpc \in {"lock", "woken"}
    /\ m = ""
    /\ m' = "worker"
    /\ wpc' = "wait"
    /\ UNCHANGED <<coreVars, packVars, listenVars, idVars, splitVars, tasks,
                   isTerminated, current, apc, atask, tpc, status, pending>>

\* cv.wait(lock, pred): with the lock held, pred is tested; the worker goes
\* on if it holds, else it gives up the lock and blocks
WorkerWaits ==
    /\ wpc = "wait"
    /\ IF tasks # <<>> \/ isTerminated
       THEN wpc' = "check" /\ m' = m
       ELSE wpc' = "blocked" /\ m' = ""
    /\ UNCHANGED <<coreVars, packVars, listenVars, idVars, splitVars, tasks,
                   isTerminated, current, apc, atask, tpc, status, pending>>

\* a wake-up of cv.wait that no notify caused
WorkerWakes ==
    /\ wpc = "blocked"
    /\ wpc' = "woken"
    /\ UNCHANGED <<coreVars, packVars, listenVars, idVars, splitVars, tasks,
                   isTerminated, m, current, apc, atask, tpc, status, pending>>

\* if(isTerminated) { lock.unlock(); break; }
WorkerBreaks ==
    /\ wpc = "check"
    /\ isTerminated
    /\ m' = ""
    /\ wpc' = "exited"
    /\ UNCHANGED <<coreVars, packVars, listenVars, idVars, splitVars, tasks,
                   isTerminated, current, apc, atask, tpc, status, pending>>

\* task = std::move(tasks.top()); tasks.pop(); lock.unlock()
WorkerPops ==
    /\ wpc = "check"
    /\ ~isTerminated
    /\ current' = tasks[1].id
    /\ tasks' = Popped(tasks)
    /\ pending' = Without(pending, tasks[1].id)
    /\ status' = [status EXCEPT ![tasks[1].id] = "taken"]
    /\ m' = ""
    /\ wpc' = "call"
    /\ UNCHANGED <<coreVars, packVars, listenVars, idVars, splitVars, isTerminated, apc,
                   atask, tpc>>

\* task.task() is entered
WorkerCalls ==
    /\ wpc = "call"
    /\ status' = [status EXCEPT ![current] = "running"]
    /\ wpc' = "run"
    /\ UNCHANGED <<coreVars, packVars, listenVars, idVars, splitVars, tasks,
                   isTerminated, m, current, apc, atask, tpc, pending>>

\* task.task() returns; the task object may be given to the worker again
TaskDone ==
    /\ wpc = "run"
    /\ status' = [status EXCEPT ![current] = "free"]
    /\ current' = 0
    /\ wpc' = "loop"
    /\ UNCHANGED <<coreVars, packVars, listenVars, idVars, splitVars, tasks,
                   isTerminated, m, apc, atask, tpc, pending>>

\* the least task not in the hands of the worker
NextFree == CHOOSE i \in TaskIds :
                /\ status[i] = "free"
                /\ \A j \in TaskIds : status[j] = "free" => i <= j

\* assignTask(task, priority): if(isTerminated) return, read with the mutex
\* not held
AssignTests ==
    /\ wpc # "none"
    /\ apc = "idle"
    /\ \E i \in TaskIds : status[i] = "free"
    /\ \E p \in Priorities :
          IF isTerminated
          THEN /\ status' = [status EXCEPT ![NextFree] = "refused"]
               /\ UNCHANGED <<apc, atask>>
          ELSE /\ status' = [status EXCEPT ![NextFree] = "assigning"]
               /\ atask' = [id |-> NextFree, priority |-> p]
               /\ apc' = "lock"
    /\ UNCHANGED <<coreVars, packVars, listenVars, idVars, splitVars, tasks,
                   isTerminated, m, wpc, current, tpc, pending>>

\* std::unique_lock<std::mutex> lock(m)
AssignLocks ==
    /\ apc = "lock"
    /\ m = ""
    /\ m' = "assigner"
    /\ apc' = "emplace"
    /\ UNCHANGED <<coreVars, packVars, listenVars, idVars, splitVars, tasks,
                   isTerminated, wpc, current, atask, tpc, status, pending>>

\* tasks.emplace(std::move(task), priority); lock.unlock()
AssignEmplaces ==
    /\ apc = "emplace"
    /\ tasks' = Emplaced(tasks, atask)
    /\ pending' = Append(pending, atask.id)
    /\ status' = [status EXCEPT ![atask.id] = "pending"]
    /\ m' = ""
    /\ apc' = "notify"
    /\ UNCHANGED <<coreVars, packVars, listenVars, idVars, splitVars, isTerminated, wpc,
                   current, atask, tpc>>

\* cv.notify_one(); assignTask returns
AssignNotifies ==
    /\ apc = "notify"
    /\ wpc' = Notified
    /\ apc' = "idle"
    /\ atask' = NoTask
    /\ UNCHANGED <<coreVars, packVars, listenVars, idVars, splitVars, tasks,
                   isTerminated, m, current, tpc, status, pending>>

\* terminate(): std::unique_lock<std::mutex> lock(m)
TerminateLocks ==
    /\ wpc # "none"
    /\ tpc = "idle"
    /\ m = ""
    /\ m' = "terminator"
    /\ tpc' = "locked"
    /\ UNCHANGED <<coreVars, packVars, listenVars, idVars, splitVars, tasks,
                   isTerminated, wpc, current, apc, atask, status, pending>>

\* while(!tasks.empty()) tasks.pop(); isTerminated = true; lock.unlock()
TerminateClears ==
    /\ tpc = "locked"
    /\ tasks' = <<>>
    /\ pending' = <<>>
    /\ status' = [i \in TaskIds |->
                     IF status[i] = "pending" THEN "removed" ELSE status[i]]
    /\ isTerminated' = TRUE
    /\ m' = ""
    /\ tpc' = "notify"
    /\ UNCHANGED <<coreVars, packVars, listenVars, idVars, splitVars, wpc, current, apc,
                   atask>>

\* cv.notify_all(); terminate returns
TerminateNotifies ==
    /\ tpc = "notify"
    /\ wpc' = Notified
    /\ tpc' = "returned"
    /\ UNCHANGED <<coreVars, packVars, listenVars, idVars, splitVars, tasks,
                   isTerminated, m, current, apc, atask, status, pending>>

\* the steps of the worker thread that wait for no one but the mutex
WorkerStep ==
    \/ WorkerTests
    \/ WorkerLocks
    \/ WorkerWaits
    \/ WorkerBreaks
    \/ WorkerPops
    \/ WorkerCalls
    \/ TaskDone

\* the steps of a call of assignTask that is under way
AssignStep ==
    \/ AssignLocks
    \/ AssignEmplaces
    \/ AssignNotifies

NextWorker ==
    \/ WorkerStarts
    \/ WorkerStep
    \/ WorkerWakes
    \/ AssignTests
    \/ AssignStep
    \/ TerminateLocks
    \/ TerminateClears
    \/ TerminateNotifies

SpecWorker == Init /\ [][NextWorker]_vars

\* the worker thread is scheduled, gets the mutex when it is free again and
\* again, every task returns, and a call of assignTask runs to its end
SpecWorkerFair ==
    /\ SpecWorker
    /\ SF_vars(WorkerStep)
    /\ WF_vars(AssignStep)

\* ------------------------------------------------------------------- C36
\* the priority a task in the queue was assigned with
PriorityOf(i) ==
    (CHOOSE t \in {tasks[k] : k \in DOMAIN tasks} : t.id = i).priority

\* C36: the task the worker takes has the highest priority of the tasks in
\* the queue, and of the tasks of that priority it is the one assigned first
C36_HighestThenFifo ==
    [][WorkerPops =>
          /\ \A k \in DOMAIN pending :
                PriorityOf(pending[k]) <= PriorityOf(current')
          /\ current' = Head(SelectSeq(pending,
                 LAMBDA i : PriorityOf(i) = PriorityOf(current')))]_vars

\* ------------------------------------------------------------------- C37
\* C37: once terminate() has returned, the worker takes no task, no task is
\* in the queue whatever assignTask calls race with terminate() or follow
\* it, and a task given to such a call is never run
C37_TerminateEmptiesQueue ==
    [][tpc' = "returned" =>
          /\ ~WorkerPops
          /\ apc' = "idle" => tasks' = <<>>
          /\ \A i \in TaskIds :
                status[i] \in {"assigning", "refused", "removed"}
                   => status'[i] \notin {"taken", "running"}]_vars

MaxCalls == 4

\* the frame sequences delivered
SplitLists == UNION {[1..n -> Frames] : n \in 0..MaxPackets}

\* the processing of packets pkts on carry and last packet, by revision
Processed(side, carry, last, pkts) ==
    IF impl = "Session"
    THEN SessionProcess(carry, last, pkts, includingIdleWords)
    ELSE process(side, carry, last, pkts)

\* a device of any revision and the frames that will reach it
InitSplit ==
    /\ impl \in Impls
    /\ handler = FALSE
    /\ includingIdleWords = FALSE
    /\ unfinishedWords = <<>>
    /\ lastPacket = IF impl = "Session" THEN <<NullPacket>> ELSE <<>>
    /\ counter = 0
    /\ packets = <<>>
    /\ blob = EmptyBlob
    /\ lastOp = "init"
    /\ stream = <<>>
    /\ emitted = <<>>
    /\ lastFrame = <<>>
    /\ keptIdle = FALSE
    /\ canInterrupt = TRUE
    /\ canSelect = TRUE
    /\ readTimeout = TRUE
    /\ Idle
    /\ host = HostDevices
    /\ enumFails = FALSE
    /\ RegIdle
    /\ dataBuffer = <<>>
    /\ wordStart = Zero64
    /\ byte = 0
    /\ packedData = <<>>
    /\ packPc = "none"
    /\ raw = <<>>
    /\ calls = 0
    /\ dropped = 0
    /\ raised = FALSE
    /\ ctor = [t \in Threads |-> NoCtor]
    /\ built = <<>>
    /\ NoWorker
    /\ whole \in SplitLists
    /\ todo = whole
    /\ warned = <<>>
    /\ counted = 0
    /\ ncalls = 0

\* fetchData to which the backend delivers the next k frames of the sequence,
\* k = 0 included
SplitFetch ==
    /\ handler
    /\ ncalls < MaxCalls
    /\ \E k \in 0..Len(todo), side \in Sides :
          LET fs == SubSeq(todo, 1, k)
              r == Processed(side, unfinishedWords, lastPacket,
                             listen(fs, counter))
          IN  /\ packets' = listen(fs, counter)
              /\ counter' = counter + k
              /\ blob' = r.blob
              /\ unfinishedWords' = r.unfinishedWords
              /\ lastPacket' = r.lastPacket
              /\ stream' = stream \o Flatten([i \in 1..k |-> fs[i].data])
              /\ emitted' = emitted \o r.blob.dataBuffer
              /\ lastFrame' = IF fs = <<>> THEN lastFrame ELSE <<fs[k]>>
              /\ keptIdle' = (keptIdle \/ (includingIdleWords /\ fs # <<>>))
              /\ todo' = SubSeq(todo, k + 1, Len(todo))
              /\ warned' = warned \o r.blob.warningsBuffer
              /\ counted' = counted + r.blob.packets
    /\ ncalls' = ncalls + 1
    /\ lastOp' = "fetch"
    /\ UNCHANGED <<impl, handler, includingIdleWords, ioVars, regVars,
                   started, packVars, listenVars, idVars, workerVars, whole>>

NextSplit ==
    \/ Open
    \/ SplitFetch

SpecSplit == InitSplit /\ [][NextSplit]_vars

\* ------------------------------------------------------------------- C39
\* the whole sequence processed in one call on a fresh device
InOneCall(side) ==
    Processed(side, <<>>, IF impl = "Session" THEN <<NullPacket>> ELSE <<>>,
              listen(whole, 0))

\* (data, warnings, packet count, carry, last packet) of a series of calls
\* are those of the one call
SameAsOneCall ==
    \E side \in Sides :
       LET one == InOneCall(side)
       IN  /\ emitted = one.blob.dataBuffer
           /\ warned = one.blob.warningsBuffer
           /\ counted = one.blob.packets
           /\ unfinishedWords = one.unfinishedWords
           /\ lastPacket = one.lastPacket

\* C39: once a frame sequence has been delivered over any series of calls,
\* empty calls included, the data, the warnings, the packet counts, the
\* carry and the last packet are those of the one call that processes the
\* whole sequence, and PacketProcessor's walk gives that call the warnings
\* the two checks of the session give it
C39_SplitIndependent ==
    (ncalls > 0 /\ todo = <<>>)
       => /\ SameAsOneCall
          /\ \A side \in Sides :
                process(side, <<>>, <<>>, listen(whole, 0)).blob.warningsBuffer
                   = SessionProcess(<<>>, <<NullPacket>>, listen(whole, 0),
                                    FALSE).blob.warningsBuffer

\* a call of pcap_dispatch begins: in the caller's thread (DAQCap.cpp,
\* PCapInterface.cpp) or in the task of fetchPackets (DAQSession_impl.cpp)
DispatchBegins ==
    \/ pc' = "dispatch" /\ pc # "dispatch"
    \/ task' = "dispatch" /\ task # "dispatch"

\* C40: the capture buffer is empty whenever a dispatch begins, whatever way
\* the fetch before it ended, and once the device is closed; so the packets
\* of a returned blob are frames delivered during that very fetch, none of
\* them is in a blob returned before, and none is a frame of an earlier
\* session
C40_BufferEmptyAtDispatch ==
    [][/\ DispatchBegins => g_packetBuffer' = <<>>
       /\ lastOp' = "close" => g_packetBuffer' = <<>>
       /\ (pc # "idle" /\ pc' = "idle" /\ outcome' = "blob") =>
             /\ PacketIDs(packets') \subseteq received
             /\ PacketIDs(packets') \cap returned = {}
             /\ PacketIDs(packets') \cap owed = {}]_vars

\* a fetch begins its dispatch with an empty buffer after one fetch returned
\* frames in a blob and another timed out with frames delivered
C40_Witness ==
    /\ task = "dispatch"
    /\ g_packetBuffer = <<>>
    /\ received = {}
    /\ owed # {}
    /\ returned # {}

====
